---- MODULE Spec2Model ----
(***************************************************************************)
(* Stock ledger of the PharmaSync API: ProductController.create,           *)
(* ProductController.updateStock and ProductController.delete running as   *)
(* concurrent requests against one PostgreSQL database through Prisma.     *)
(*                                                                         *)
(* The database holds the committed rows only. A request is a sequence of  *)
(* steps, one per awaited storage call of its handler; steps of different  *)
(* requests interleave freely. An interactive transaction keeps its writes *)
(* in the request until COMMIT and holds the row lock of the product it    *)
(* has written, as PostgreSQL does at its default isolation level          *)
(* (READ COMMITTED): a plain SELECT takes no lock and sees the rows        *)
(* committed so far, an UPDATE or DELETE waits for the row lock and then   *)
(* acts on the latest committed row.                                       *)
(***************************************************************************)
EXTENDS Integers, Sequences, FiniteSets, TLC

\* ---- bounds of the model ------------------------------------------------
MaxProducts == 1     \* products ever created
MaxReqs == 2         \* requests in flight at the same time
MaxCalls == 3        \* requests ever started
MaxQty == 2          \* largest quantity a request carries

ProductIds == 1..MaxProducts
Reqs == 1..MaxReqs

\* ---- enumerations of the Prisma schema ------------------------------------
LogType == {"PURCHASE", "SALE", "ADJUSTMENT", "RETURN", "EXPIRED", "DAMAGED"}
ProductStatus == {"ACTIVE", "DISCONTINUED", "OUT_OF_STOCK", "EXPIRED"}

Increasing == {"PURCHASE", "RETURN"}
Decreasing == {"SALE", "ADJUSTMENT", "EXPIRED", "DAMAGED"}

\* ---- request inputs accepted by the zod schemas ---------------------------
NoStatus == "undefined"
NoReason == "undefined"
\* productCreateSchema: quantity is z.number().int().min(0)
CreateQuantities == 0..MaxQty
\* productCreateSchema: status is an optional ProductStatus
CreateStatuses == ProductStatus \cup {NoStatus}
\* stockUpdateSchema: quantity is z.number().int(), any integer, no lower bound
StockQuantities == (0 - 1)..MaxQty
\* stockUpdateSchema: reason is an optional string
StockReasons == {"recount"}

VARIABLES
    product,        \* table Product: id -> committed row
    inventoryLogs,  \* table InventoryLog: committed rows in order of creation
    nextId,         \* next product id to hand out (ids are never reused)
    nextLogId,      \* next inventory log id to hand out
    lock,           \* product id -> request holding the row lock, 0 if none
    req,            \* request slot -> state of the request running in it
    calls,          \* number of requests started so far
    user,           \* table User: id -> [role, isBlocked, refreshToken]
    catalog,        \* table Product, its directory columns: id -> row
    category,       \* table Category: the ids stored
    supplier,       \* table Supplier: the ids stored
    now             \* the server's clock, in whole seconds (the iat of a token issued now)

vars == <<product, inventoryLogs, nextId, nextLogId, lock, req, calls,
          user, catalog, category, supplier, now>>
db == <<product, inventoryLogs, nextId, nextLogId, lock>>
\* The tables the stock ledger's handlers never write.
others == <<user, catalog, category, supplier, now>>

NullRow == [quantity |-> 0, status |-> "null", updatedAt |-> 0]
NoRes == [status |-> 0, error |-> "none"]

\* A free request slot.
Idle ==
    [pc |-> "idle", op |-> "none", id |-> 0, type |-> "none", quantity |-> 0,
     reason |-> NoReason, status |-> NoStatus, currentProduct |-> NullRow,
     newQuantity |-> 0, updatedProduct |-> NullRow, deleted |-> {},
     hasQuantity |-> FALSE, logs |-> <<>>, products |-> <<>>, res |-> NoRes]

Init ==
    /\ product = <<>>
    /\ inventoryLogs = <<>>
    /\ nextId = 1
    /\ nextLogId = 1
    /\ lock = [p \in ProductIds |-> 0]
    /\ req = [r \in Reqs |-> Idle]
    /\ calls = 0
    /\ now = 0
    /\ user = <<>>
    /\ catalog = <<>>
    /\ category = {}
    /\ supplier = {}

\* ---- pure helpers ----------------------------------------------------------

\* The HTTP status the error middleware answers for an error.
ErrorStatus(error) ==
    CASE error = "NotFoundError" -> 404
      [] error = "ValidationError" -> 400
      [] error = "P2025" -> 404
      [] error = "P2003" -> 400
      [] error = "ConflictError" -> 409
      [] error = "P2002" -> 409
      [] OTHER -> 500

\* Mutant: RETURN falls through to the subtracting cases.
NewQuantity_ReturnSubtracts(quantity, type, movement) ==
    IF type = "PURCHASE" THEN quantity + movement ELSE quantity - movement

\* Mutant: ADJUSTMENT is grouped with the adding cases.
NewQuantity_AdjustmentAdds(quantity, type, movement) ==
    IF type \in Increasing \cup {"ADJUSTMENT"}
    THEN quantity + movement ELSE quantity - movement

\* updateStock's switch on the movement type.
NewQuantity(quantity, type, movement) ==
    IF type \in Increasing THEN quantity + movement ELSE quantity - movement

\* Mutant: the guard is missing.
InsufficientStock_Never(newQuantity) == FALSE

\* updateStock's guard: 'Insufficient stock'.
\* Mutant: the guard is off by one and lets the quantity reach -1.
InsufficientStock_AllowsMinusOne(newQuantity) == newQuantity < 0 - 1

InsufficientStock(newQuantity) == newQuantity < 0

\* Mutant: the status is ACTIVE whatever the quantity.
DerivedStatus_AlwaysActive(newQuantity) == "ACTIVE"

\* Mutant: the two branches are swapped.
DerivedStatus_Swapped(newQuantity) ==
    IF newQuantity = 0 THEN "ACTIVE" ELSE "OUT_OF_STOCK"

\* updateStock's derived status.
DerivedStatus(newQuantity) ==
    IF newQuantity = 0 THEN "OUT_OF_STOCK" ELSE "ACTIVE"

\* The committed log rows of a product, as a set.
LogsOf(p) ==
    {inventoryLogs[i] : i \in {j \in DOMAIN inventoryLogs : inventoryLogs[j].productId = p}}

SelectSeq2(s, keep) ==
    LET F[i \in 0..Len(s)] ==
            IF i = 0 THEN <<>>
            ELSE IF s[i].id \in keep THEN Append(F[i - 1], s[i]) ELSE F[i - 1]
    IN F[Len(s)]

Free(r) == req[r].pc \in {"idle", "done"}

\* A new request takes the lowest free slot, while the call budget lasts.
CanStart(r) ==
    /\ calls < MaxCalls
    /\ Free(r)
    /\ \A r2 \in Reqs : r2 < r => ~Free(r2)

\* The request ends: its response is sent and its transaction state dropped.
Respond(r, status, error) ==
    [req[r] EXCEPT !.pc = "done", !.res = [status |-> status, error |-> error]]

Throw(r, error) == Respond(r, ErrorStatus(error), error)

Release(r) == [p \in ProductIds |-> IF lock[p] = r THEN 0 ELSE lock[p]]

\* The product row is locked by a transaction that deleted it: an insert of a
\* row referencing it waits. (The lock an UPDATE of quantity and status takes
\* does not stop such an insert.)
DeleteLocked(p) ==
    IF lock[p] = 0 THEN FALSE ELSE req[lock[p]].op = "delete"

\* ---- ProductController.create ---------------------------------------------

\* POST /products with a body the create schema accepts. (The findFirst on sku
\* and barcode that precedes the insert reads no quantity, status or log entry;
\* the ledger does not carry those two columns.)
StartCreate(r, quantity, status) ==
    /\ CanStart(r)
    /\ nextId + Cardinality({r2 \in Reqs : req[r2].pc = "cr_create"}) <= MaxProducts
    /\ req' = [req EXCEPT ![r] = [Idle EXCEPT !.pc = "cr_create", !.op = "create",
                                              !.quantity = quantity, !.status = status]]
    /\ calls' = calls + 1
    /\ UNCHANGED db
    /\ UNCHANGED others

\* Mutant: the initial entry is written whatever the quantity (the test
\* 'quantity > 0' is missing).
CrCreate_AlwaysLogs(r) ==
    /\ req[r].pc = "cr_create"
    /\ product' = product @@ (nextId :>
            [quantity |-> req[r].quantity,
             status |-> IF req[r].status = NoStatus THEN "ACTIVE" ELSE req[r].status,
             updatedAt |-> 0])
    /\ nextId' = nextId + 1
    /\ req' = [req EXCEPT ![r] = [req[r] EXCEPT !.pc = "cr_log", !.id = nextId]]
    /\ UNCHANGED <<inventoryLogs, nextLogId, lock, calls>>
    /\ UNCHANGED others

\* prisma.product.create: one statement, committed on its own. The row takes
\* the status of the body, or the column default ACTIVE when the body has none.
\* Without initial stock the handler answers 201 at once.
CrCreate(r) ==
    /\ req[r].pc = "cr_create"
    /\ product' = product @@ (nextId :>
            [quantity |-> req[r].quantity,
             status |-> IF req[r].status = NoStatus THEN "ACTIVE" ELSE req[r].status,
             updatedAt |-> 0])
    /\ nextId' = nextId + 1
    /\ req' = [req EXCEPT ![r] =
            IF req[r].quantity > 0
            THEN [req[r] EXCEPT !.pc = "cr_log", !.id = nextId]
            ELSE [Respond(r, 201, "none") EXCEPT !.id = nextId]]
    /\ UNCHANGED <<inventoryLogs, nextLogId, lock, calls>>
    /\ UNCHANGED others

\* prisma.inventoryLog.create of the 'Initial stock' entry: a second statement,
\* committed on its own. Its foreign key needs the product row: the insert
\* waits while a transaction that deleted the row is open, and fails (P2003)
\* when the row is gone.
CrCreateLog(r) ==
    /\ req[r].pc = "cr_log"
    /\ ~DeleteLocked(req[r].id)
    /\ IF req[r].id \in DOMAIN product
       THEN /\ inventoryLogs' = Append(inventoryLogs,
                    [id |-> nextLogId, productId |-> req[r].id, type |-> "PURCHASE",
                     quantity |-> req[r].quantity, reason |-> "Initial stock"])
            /\ nextLogId' = nextLogId + 1
            /\ req' = [req EXCEPT ![r] = Respond(r, 201, "none")]
       ELSE /\ req' = [req EXCEPT ![r] = Throw(r, "P2003")]
            /\ UNCHANGED <<inventoryLogs, nextLogId>>
    /\ UNCHANGED <<product, nextId, lock, calls>>
    /\ UNCHANGED others

\* A storage call of create fails (connection lost, timeout): the handler
\* throws, the error handler answers 500. Statements already committed stay.
CrFail(r) ==
    /\ req[r].pc \in {"cr_create", "cr_log"}
    /\ req' = [req EXCEPT ![r] = Throw(r, "StorageError")]
    /\ UNCHANGED <<db, calls>>
    /\ UNCHANGED others

\* ---- ProductController.updateStock ----------------------------------------

\* PATCH /products/:id/stock with a body the stock schema accepts.
StartUpdateStock(r, id, type, quantity, reason) ==
    /\ CanStart(r)
    /\ req' = [req EXCEPT ![r] = [Idle EXCEPT !.pc = "us_find", !.op = "updateStock",
                                              !.id = id, !.type = type,
                                              !.quantity = quantity, !.reason = reason]]
    /\ calls' = calls + 1
    /\ UNCHANGED db
    /\ UNCHANGED others

\* Mutant: the test 'if (!currentProduct)' is missing, so a product that does
\* not exist makes the callback throw a TypeError (500).
UsFind_NoNullCheck(r) ==
    /\ req[r].pc = "us_find"
    /\ req' = [req EXCEPT ![r] =
            IF req[r].id \notin DOMAIN product
            THEN Throw(r, "TypeError")
            ELSE LET currentProduct == product[req[r].id]
                     newQuantity == NewQuantity(currentProduct.quantity,
                                                req[r].type, req[r].quantity)
                 IN IF InsufficientStock(newQuantity)
                    THEN [Throw(r, "ValidationError") EXCEPT
                              !.currentProduct = currentProduct]
                    ELSE [req[r] EXCEPT !.pc = "us_update",
                                        !.currentProduct = currentProduct,
                                        !.newQuantity = newQuantity]]
    /\ UNCHANGED <<db, calls>>
    /\ UNCHANGED others

\* Inside prisma.$transaction: tx.product.findUnique, then the switch on the
\* type and the guard. The read sees the committed row and takes no lock.
UsFind(r) ==
    /\ req[r].pc = "us_find"
    /\ req' = [req EXCEPT ![r] =
            IF req[r].id \notin DOMAIN product
            THEN Throw(r, "NotFoundError")
            ELSE LET currentProduct == product[req[r].id]
                     newQuantity == NewQuantity(currentProduct.quantity,
                                                req[r].type, req[r].quantity)
                 IN IF InsufficientStock(newQuantity)
                    THEN [Throw(r, "ValidationError") EXCEPT
                              !.currentProduct = currentProduct]
                    ELSE [req[r] EXCEPT !.pc = "us_update",
                                        !.currentProduct = currentProduct,
                                        !.newQuantity = newQuantity]]
    /\ UNCHANGED <<db, calls>>
    /\ UNCHANGED others

\* Mutant: the update goes through the global client instead of tx, so it is
\* committed at once, outside the transaction.
UsUpdate_OutsideTx(r) ==
    /\ req[r].pc = "us_update"
    /\ lock[req[r].id] = 0
    /\ IF req[r].id \in DOMAIN product
       THEN /\ product' = [product EXCEPT ![req[r].id] = [@ EXCEPT
                    !.quantity = req[r].newQuantity,
                    !.status = DerivedStatus(req[r].newQuantity),
                    !.updatedAt = @ + 1]]
            /\ req' = [req EXCEPT ![r] = [req[r] EXCEPT
                    !.pc = "us_log", !.updatedProduct = product'[req[r].id]]]
       ELSE /\ req' = [req EXCEPT ![r] = Throw(r, "P2025")]
            /\ UNCHANGED product
    /\ UNCHANGED <<inventoryLogs, nextId, nextLogId, lock, calls>>
    /\ UNCHANGED others

\* tx.product.update: waits for the row lock, then writes quantity and status
\* into the latest committed row; the write stays in the transaction. A row
\* deleted in the meantime makes Prisma throw P2025.
UsUpdate(r) ==
    /\ req[r].pc = "us_update"
    /\ lock[req[r].id] = 0
    /\ IF req[r].id \in DOMAIN product
       THEN /\ lock' = [lock EXCEPT ![req[r].id] = r]
            /\ req' = [req EXCEPT ![r] = [req[r] EXCEPT
                    !.pc = "us_log",
                    !.updatedProduct = [product[req[r].id] EXCEPT
                        !.quantity = req[r].newQuantity,
                        !.status = DerivedStatus(req[r].newQuantity),
                        !.updatedAt = @ + 1]]]
       ELSE /\ req' = [req EXCEPT ![r] = Throw(r, "P2025")]
            /\ UNCHANGED lock
    /\ UNCHANGED <<product, inventoryLogs, nextId, nextLogId, calls>>
    /\ UNCHANGED others

\* tx.inventoryLog.create: the entry stays in the transaction until COMMIT.
UsCreateLog(r) ==
    /\ req[r].pc = "us_log"
    /\ req' = [req EXCEPT ![r].pc = "us_commit"]
    /\ UNCHANGED <<db, calls>>
    /\ UNCHANGED others

\* Mutant: the movement is applied again after a retry, so its entry is
\* written twice.
UsCommit_AppendsTwice(r) ==
    /\ req[r].pc = "us_commit"
    /\ product' = [product EXCEPT ![req[r].id] = req[r].updatedProduct]
    /\ inventoryLogs' = inventoryLogs \o
            << [id |-> nextLogId, productId |-> req[r].id, type |-> req[r].type,
                quantity |-> req[r].quantity, reason |-> req[r].reason],
               [id |-> nextLogId + 1, productId |-> req[r].id, type |-> req[r].type,
                quantity |-> req[r].quantity, reason |-> req[r].reason] >>
    /\ nextLogId' = nextLogId + 2
    /\ lock' = Release(r)
    /\ req' = [req EXCEPT ![r] = Respond(r, 200, "none")]
    /\ UNCHANGED <<nextId, calls>>
    /\ UNCHANGED others

\* Mutant: the entry replaces the newest one of the log instead of being added.
UsCommit_OverwritesNewest(r) ==
    /\ req[r].pc = "us_commit"
    /\ product' = [product EXCEPT ![req[r].id] = req[r].updatedProduct]
    /\ inventoryLogs' =
            (IF Len(inventoryLogs) = 0 THEN <<>>
             ELSE SubSeq(inventoryLogs, 1, Len(inventoryLogs) - 1)) \o
            << [id |-> nextLogId, productId |-> req[r].id, type |-> req[r].type,
                quantity |-> req[r].quantity, reason |-> req[r].reason] >>
    /\ nextLogId' = nextLogId + 1
    /\ lock' = Release(r)
    /\ req' = [req EXCEPT ![r] = Respond(r, 200, "none")]
    /\ UNCHANGED <<nextId, calls>>
    /\ UNCHANGED others

\* The callback returned: COMMIT publishes the product write and the log
\* entry together and releases the row lock; the handler answers 200.
UsCommit(r) ==
    /\ req[r].pc = "us_commit"
    /\ product' = [product EXCEPT ![req[r].id] = req[r].updatedProduct]
    /\ inventoryLogs' = Append(inventoryLogs,
            [id |-> nextLogId, productId |-> req[r].id, type |-> req[r].type,
             quantity |-> req[r].quantity, reason |-> req[r].reason])
    /\ nextLogId' = nextLogId + 1
    /\ lock' = Release(r)
    /\ req' = [req EXCEPT ![r] = Respond(r, 200, "none")]
    /\ UNCHANGED <<nextId, calls>>
    /\ UNCHANGED others

\* A storage call inside the transaction fails: the callback throws, Prisma
\* rolls the transaction back (its writes are dropped, its lock released) and
\* the error handler answers 500.
UsFail(r) ==
    /\ req[r].pc \in {"us_find", "us_update", "us_log", "us_commit"}
    /\ lock' = Release(r)
    /\ req' = [req EXCEPT ![r] = Throw(r, "StorageError")]
    /\ UNCHANGED <<product, inventoryLogs, nextId, nextLogId, calls>>
    /\ UNCHANGED others

\* ---- ProductController.delete ---------------------------------------------

\* DELETE /products/:id.
StartDelete(r, id) ==
    /\ CanStart(r)
    /\ req' = [req EXCEPT ![r] = [Idle EXCEPT !.pc = "del_find", !.op = "delete",
                                              !.id = id]]
    /\ calls' = calls + 1
    /\ UNCHANGED db
    /\ UNCHANGED others

\* prisma.product.findUnique outside the transaction.
DelFind(r) ==
    /\ req[r].pc = "del_find"
    /\ req' = [req EXCEPT ![r] =
            IF req[r].id \in DOMAIN product
            THEN [req[r] EXCEPT !.pc = "del_logs"]
            ELSE Throw(r, "NotFoundError")]
    /\ UNCHANGED <<db, calls>>
    /\ UNCHANGED others

\* First statement of the batch transaction: inventoryLog.deleteMany removes
\* the log rows of the product committed so far.
DelLogs(r) ==
    /\ req[r].pc = "del_logs"
    /\ req' = [req EXCEPT ![r] = [req[r] EXCEPT
            !.pc = "del_product",
            !.deleted = {l.id : l \in LogsOf(req[r].id)}]]
    /\ UNCHANGED <<db, calls>>
    /\ UNCHANGED others

\* Mutant: a product row that is already gone is not an error (as with
\* deleteMany), so the batch goes on to commit.
DelProduct_IgnoresMissingRow(r) ==
    /\ req[r].pc = "del_product"
    /\ lock[req[r].id] = 0
    /\ IF req[r].id \in DOMAIN product /\ \E l \in LogsOf(req[r].id) : l.id \notin req[r].deleted
       THEN /\ req' = [req EXCEPT ![r] = [Throw(r, "P2003") EXCEPT !.deleted = {}]]
            /\ UNCHANGED lock
       ELSE /\ lock' = [lock EXCEPT ![req[r].id] = r]
            /\ req' = [req EXCEPT ![r].pc = "del_commit"]
    /\ UNCHANGED <<product, inventoryLogs, nextId, nextLogId, calls>>
    /\ UNCHANGED others

\* Mutant: the log's foreign key to the product is not enforced.
DelProduct_NoForeignKey(r) ==
    /\ req[r].pc = "del_product"
    /\ lock[req[r].id] = 0
    /\ IF req[r].id \notin DOMAIN product
       THEN /\ req' = [req EXCEPT ![r] = [Throw(r, "P2025") EXCEPT !.deleted = {}]]
            /\ UNCHANGED lock
       ELSE /\ lock' = [lock EXCEPT ![req[r].id] = r]
            /\ req' = [req EXCEPT ![r].pc = "del_commit"]
    /\ UNCHANGED <<product, inventoryLogs, nextId, nextLogId, calls>>
    /\ UNCHANGED others

\* Second statement: product.delete waits for the row lock. A row already gone
\* is P2025; a log row committed since the first statement still references
\* the product and the foreign key (ON DELETE RESTRICT) refuses with P2003.
DelProduct(r) ==
    /\ req[r].pc = "del_product"
    /\ lock[req[r].id] = 0
    /\ IF req[r].id \notin DOMAIN product
       THEN /\ req' = [req EXCEPT ![r] = [Throw(r, "P2025") EXCEPT !.deleted = {}]]
            /\ UNCHANGED lock
       ELSE IF \E l \in LogsOf(req[r].id) : l.id \notin req[r].deleted
       THEN /\ req' = [req EXCEPT ![r] = [Throw(r, "P2003") EXCEPT !.deleted = {}]]
            /\ UNCHANGED lock
       ELSE /\ lock' = [lock EXCEPT ![req[r].id] = r]
            /\ req' = [req EXCEPT ![r].pc = "del_commit"]
    /\ UNCHANGED <<product, inventoryLogs, nextId, nextLogId, calls>>
    /\ UNCHANGED others

\* Mutant: the delete removes the product row only (the older controller's
\* delete, with the log rows left behind).
DelCommit_ProductOnly(r) ==
    /\ req[r].pc = "del_commit"
    /\ product' = [p \in DOMAIN product \ {req[r].id} |-> product[p]]
    /\ lock' = Release(r)
    /\ req' = [req EXCEPT ![r] = [Respond(r, 204, "none") EXCEPT !.deleted = {}]]
    /\ UNCHANGED <<inventoryLogs, nextId, nextLogId, calls>>
    /\ UNCHANGED others

\* COMMIT of the batch: the log rows and the product row go together; 204.
DelCommit(r) ==
    /\ req[r].pc = "del_commit"
    /\ product' = [p \in DOMAIN product \ {req[r].id} |-> product[p]]
    /\ inventoryLogs' = SelectSeq2(inventoryLogs,
            {l.id : l \in {inventoryLogs[i] : i \in DOMAIN inventoryLogs}} \ req[r].deleted)
    /\ lock' = Release(r)
    /\ req' = [req EXCEPT ![r] = [Respond(r, 204, "none") EXCEPT !.deleted = {}]]
    /\ UNCHANGED <<nextId, nextLogId, calls>>
    /\ UNCHANGED others

\* A storage call of delete fails: the batch is rolled back, 500.
DelFail(r) ==
    /\ req[r].pc \in {"del_find", "del_logs", "del_product", "del_commit"}
    /\ lock' = Release(r)
    /\ req' = [req EXCEPT ![r] = [Throw(r, "StorageError") EXCEPT !.deleted = {}]]
    /\ UNCHANGED <<product, inventoryLogs, nextId, nextLogId, calls>>
    /\ UNCHANGED others

\* ---- the specification -----------------------------------------------------

Next ==
    \/ \E r \in Reqs, q \in CreateQuantities, s \in CreateStatuses : StartCreate(r, q, s)
    \/ \E r \in Reqs : CrCreate(r)
    \/ \E r \in Reqs : CrCreateLog(r)
    \/ \E r \in Reqs : CrFail(r)
    \/ \E r \in Reqs, id \in ProductIds, t \in LogType, q \in StockQuantities,
          reason \in StockReasons : StartUpdateStock(r, id, t, q, reason)
    \/ \E r \in Reqs : UsFind(r)
    \/ \E r \in Reqs : UsUpdate(r)
    \/ \E r \in Reqs : UsCreateLog(r)
    \/ \E r \in Reqs : UsCommit(r)
    \/ \E r \in Reqs : UsFail(r)
    \/ \E r \in Reqs, id \in ProductIds : StartDelete(r, id)
    \/ \E r \in Reqs : DelFind(r)
    \/ \E r \in Reqs : DelLogs(r)
    \/ \E r \in Reqs : DelProduct(r)
    \/ \E r \in Reqs : DelCommit(r)
    \/ \E r \in Reqs : DelFail(r)

Spec == Init /\ [][Next]_vars

\* ---- The product directory: update and getOne ----------------------------

\* Number of log entries getOne includes in its answer.
TakeLogs == 10

\* Bodies productUpdateSchema accepts: every field is optional; a quantity,
\* when given, is an integer >= 0, a status is a ProductStatus.
UpdateQuantities == CreateQuantities

\* Mutant: orderBy createdAt asc, the oldest entries first.
RecentLogs_OldestFirst(p, n) ==
    LET F[i \in 0..Len(inventoryLogs)] ==
            IF i = 0 THEN <<>>
            ELSE IF inventoryLogs[i].productId = p
                 THEN Append(F[i - 1], inventoryLogs[i])
                 ELSE F[i - 1]
        all == F[Len(inventoryLogs)]
    IN IF Len(all) <= n THEN all ELSE SubSeq(all, 1, n)

\* The log entries of product p, newest first, at most n of them.
RecentLogs(p, n) ==
    LET F[i \in 0..Len(inventoryLogs)] ==
            IF i = 0 THEN <<>>
            ELSE IF inventoryLogs[i].productId = p
                 THEN <<inventoryLogs[i]>> \o F[i - 1]
                 ELSE F[i - 1]
        all == F[Len(inventoryLogs)]
    IN IF Len(all) <= n THEN all ELSE SubSeq(all, 1, n)

\* PUT /products/:id, body validated by productUpdateSchema.
StartUpdate(r, id, hasQuantity, quantity, status) ==
    /\ CanStart(r)
    /\ req' = [req EXCEPT ![r] = [Idle EXCEPT !.pc = "up_find", !.op = "update",
                                              !.id = id, !.hasQuantity = hasQuantity,
                                              !.quantity = IF hasQuantity THEN quantity ELSE 0,
                                              !.status = status]]
    /\ calls' = calls + 1
    /\ UNCHANGED db
    /\ UNCHANGED others

\* prisma.product.findUnique: a plain read; NotFoundError if there is no row.
UpFind(r) ==
    /\ req[r].pc = "up_find"
    /\ req' = [req EXCEPT ![r] =
            IF req[r].id \in DOMAIN product
            THEN [req[r] EXCEPT !.pc = "up_update", !.currentProduct = product[req[r].id]]
            ELSE Throw(r, "NotFoundError")]
    /\ UNCHANGED <<db, calls>>
    /\ UNCHANGED others

\* prisma.product.update({ data: updateData }): one statement, committed on
\* its own; it waits for the row lock, writes the fields the body carries and
\* bumps updatedAt. No inventory log entry is written. P2025 if the row is gone.
UpUpdate(r) ==
    /\ req[r].pc = "up_update"
    /\ lock[req[r].id] = 0
    /\ IF req[r].id \in DOMAIN product
       THEN LET row == product[req[r].id]
                updatedProduct ==
                    [quantity |-> IF req[r].hasQuantity THEN req[r].quantity ELSE row.quantity,
                     status |-> IF req[r].status = NoStatus THEN row.status ELSE req[r].status,
                     updatedAt |-> row.updatedAt + 1]
            IN /\ product' = [product EXCEPT ![req[r].id] = updatedProduct]
               /\ req' = [req EXCEPT ![r] =
                       [Respond(r, 200, "none") EXCEPT !.updatedProduct = updatedProduct]]
       ELSE /\ req' = [req EXCEPT ![r] = Throw(r, "P2025")]
            /\ UNCHANGED product
    /\ UNCHANGED <<inventoryLogs, nextId, nextLogId, lock, calls>>
    /\ UNCHANGED others

\* A storage call of update fails: 500, nothing written.
UpFail(r) ==
    /\ req[r].pc \in {"up_find", "up_update"}
    /\ req' = [req EXCEPT ![r] = Throw(r, "StorageError")]
    /\ UNCHANGED <<db, calls>>
    /\ UNCHANGED others

\* GET /products/:id.
StartGetOne(r, id) ==
    /\ CanStart(r)
    /\ req' = [req EXCEPT ![r] = [Idle EXCEPT !.pc = "go_find", !.op = "getOne", !.id = id]]
    /\ calls' = calls + 1
    /\ UNCHANGED db
    /\ UNCHANGED others

\* prisma.product.findUnique with the newest log entries included: the row
\* and its entries as committed; NotFoundError if there is no row.
GoFind(r) ==
    /\ req[r].pc = "go_find"
    /\ req' = [req EXCEPT ![r] =
            IF req[r].id \in DOMAIN product
            THEN [Respond(r, 200, "none") EXCEPT
                      !.currentProduct = product[req[r].id],
                      !.logs = RecentLogs(req[r].id, TakeLogs)]
            ELSE Throw(r, "NotFoundError")]
    /\ UNCHANGED <<db, calls>>
    /\ UNCHANGED others

\* The read of getOne fails: 500.
GoFail(r) ==
    /\ req[r].pc = "go_find"
    /\ req' = [req EXCEPT ![r] = Throw(r, "StorageError")]
    /\ UNCHANGED <<db, calls>>
    /\ UNCHANGED others

\* Statuses the directory specification passes to update: one given, or none.
DirectoryStatuses == {NoStatus, "DISCONTINUED"}

\* All the product handlers together.
NextDirectory ==
    \/ \E r \in Reqs, q \in CreateQuantities : StartCreate(r, q, NoStatus)
    \/ \E r \in Reqs : CrCreate(r)
    \/ \E r \in Reqs : CrCreateLog(r)
    \/ \E r \in Reqs : CrFail(r)
    \/ \E r \in Reqs, id \in ProductIds, t \in LogType, q \in StockQuantities,
          reason \in StockReasons : StartUpdateStock(r, id, t, q, reason)
    \/ \E r \in Reqs : UsFind(r)
    \/ \E r \in Reqs : UsUpdate(r)
    \/ \E r \in Reqs : UsCreateLog(r)
    \/ \E r \in Reqs : UsCommit(r)
    \/ \E r \in Reqs : UsFail(r)
    \/ \E r \in Reqs, id \in ProductIds : StartDelete(r, id)
    \/ \E r \in Reqs : DelFind(r)
    \/ \E r \in Reqs : DelLogs(r)
    \/ \E r \in Reqs : DelProduct(r)
    \/ \E r \in Reqs : DelCommit(r)
    \/ \E r \in Reqs : DelFail(r)
    \/ \E r \in Reqs, id \in ProductIds, h \in BOOLEAN, q \in UpdateQuantities,
          s \in DirectoryStatuses : StartUpdate(r, id, h, q, s)
    \/ \E r \in Reqs : UpFind(r)
    \/ \E r \in Reqs : UpUpdate(r)
    \/ \E r \in Reqs : UpFail(r)
    \/ \E r \in Reqs, id \in ProductIds : StartGetOne(r, id)
    \/ \E r \in Reqs : GoFind(r)
    \/ \E r \in Reqs : GoFail(r)

SpecDirectory == Init /\ [][NextDirectory]_vars

\* ---- what the claims speak about -------------------------------------------

UsPcs == {"us_find", "us_update", "us_log", "us_commit"}

\* Request r took a step.
Stepped(r) == req'[r] # req[r]

\* The updateStock request in slot r has answered 200.
Succeeded(r) ==
    /\ req[r].pc = "done"
    /\ req[r].op = "updateStock"
    /\ req[r].res.status = 200

\* The updateStock request in slot r commits in this step.
Commits(r) ==
    /\ req[r].pc = "us_commit"
    /\ req'[r].pc = "done"
    /\ req'[r].res.status = 200

\* The updateStock request in slot r completes its read-and-guard step (the
\* read itself did not fail).
Finds(r) ==
    /\ req[r].pc = "us_find"
    /\ Stepped(r)
    /\ req'[r].res.error # "StorageError"

\* No request is in flight.
Quiescent == \A r \in Reqs : Free(r)

\* Signed effect of a log entry on the stock: its type gives the sign.
Effect(l) == IF l.type \in Increasing THEN l.quantity ELSE 0 - l.quantity

\* The stock a product's committed log entries add up to.
LedgerSum(p) ==
    LET F[i \in 0..Len(inventoryLogs)] ==
            IF i = 0 THEN 0
            ELSE IF inventoryLogs[i].productId = p
                 THEN F[i - 1] + Effect(inventoryLogs[i])
                 ELSE F[i - 1]
    IN F[Len(inventoryLogs)]

\* The log entry an updateStock request asks for.
RequestedEntry(r) ==
    [id |-> nextLogId, productId |-> req[r].id, type |-> req[r].type,
     quantity |-> req[r].quantity, reason |-> req[r].reason]

\* ---- C1 ------------------------------------------------------------------
\* C1 (as claimed): when two decreasing adjustStock calls on one product read
\* the same stored row (they ran concurrently from the same quantity q), both
\* answered 200 and nothing else has written the product since, the stored
\* quantity is q - m1 - m2. (Stated for m1 + m2 <= q, where both calls would
\* also succeed one after the other.)
C1_NoLostUpdate ==
    \A r1 \in Reqs, r2 \in Reqs :
        ( /\ r1 # r2
          /\ Succeeded(r1) /\ Succeeded(r2)
          /\ req[r1].id = req[r2].id
          /\ req[r1].type \in Decreasing /\ req[r2].type \in Decreasing
          /\ req[r1].quantity > 0 /\ req[r2].quantity > 0
          /\ req[r1].currentProduct = req[r2].currentProduct
          /\ req[r1].quantity + req[r2].quantity <= req[r1].currentProduct.quantity
          /\ req[r1].id \in DOMAIN product
          /\ product[req[r1].id].updatedAt = req[r1].currentProduct.updatedAt + 2 )
        => product[req[r1].id].quantity =
               req[r1].currentProduct.quantity - req[r1].quantity - req[r2].quantity

\* ---- C2 ------------------------------------------------------------------
\* C2 (as claimed): of two concurrent decreasing adjustStock calls that saw the
\* same stored quantity q, with 0 < m1 <= q, 0 < m2 <= q and m1 + m2 > q, at
\* most one answers 200.
C2_NoOverselling ==
    \A r1 \in Reqs, r2 \in Reqs :
        ( /\ r1 # r2
          /\ req[r1].op = "updateStock" /\ req[r2].op = "updateStock"
          /\ req[r1].id = req[r2].id
          /\ req[r1].type \in Decreasing /\ req[r2].type \in Decreasing
          /\ req[r1].currentProduct = req[r2].currentProduct
          /\ req[r1].currentProduct # NullRow
          /\ req[r1].quantity > 0 /\ req[r1].quantity <= req[r1].currentProduct.quantity
          /\ req[r2].quantity > 0 /\ req[r2].quantity <= req[r2].currentProduct.quantity
          /\ req[r1].quantity + req[r2].quantity > req[r1].currentProduct.quantity )
        => ~(Succeeded(r1) /\ Succeeded(r2))

\* ---- C3 ------------------------------------------------------------------
\* C3: a decreasing movement of magnitude m greater than the stored quantity q
\* is answered 400 'Insufficient stock' at its read-and-guard step, and that
\* step leaves the product rows, the log and the locks as they were.
C3_InsufficientStockRejected ==
    [][\A r \in Reqs :
        ( /\ Finds(r)
          /\ req[r].id \in DOMAIN product
          /\ req[r].type \in Decreasing
          /\ req[r].quantity > product[req[r].id].quantity )
        => /\ req'[r].pc = "done"
           /\ req'[r].res = [status |-> 400, error |-> "ValidationError"]
           /\ product' = product
           /\ inventoryLogs' = inventoryLogs
           /\ lock' = lock]_vars

\* A decreasing movement larger than the stock was answered 400 and the
\* product row is the one it read.
C3_Witness ==
    \E r \in Reqs :
        /\ req[r].pc = "done" /\ req[r].op = "updateStock"
        /\ req[r].res = [status |-> 400, error |-> "ValidationError"]
        /\ req[r].type \in Decreasing
        /\ req[r].quantity > req[r].currentProduct.quantity
        /\ req[r].id \in DOMAIN product
        /\ product[req[r].id] = req[r].currentProduct
        /\ LogsOf(req[r].id) = {}

\* ---- C4 ------------------------------------------------------------------
\* C4: every step of an adjustStock request changes the committed product row
\* and the committed log together or not at all; a request that ends in an
\* error has changed neither, one that ends with 200 has changed both.
C4_AllOrNothing ==
    [][\A r \in Reqs :
        (req[r].pc \in UsPcs /\ Stepped(r))
        => /\ (product' # product) <=> (inventoryLogs' # inventoryLogs)
           /\ (req'[r].pc = "done" /\ req'[r].res.status # 200)
                  => (product' = product /\ inventoryLogs' = inventoryLogs)
           /\ (req'[r].pc = "done" /\ req'[r].res.status = 200)
                  => /\ product'[req[r].id].updatedAt = product[req[r].id].updatedAt + 1
                     /\ Len(inventoryLogs') = Len(inventoryLogs) + 1
           /\ req'[r].pc # "done" => (product' = product /\ inventoryLogs' = inventoryLogs)]_vars

\* A storage failure struck after tx.product.update had run, and the
\* committed row is still the one the request read, with no log entry added.
C4_Witness ==
    \E r \in Reqs :
        /\ req[r].pc = "done" /\ req[r].op = "updateStock"
        /\ req[r].res.error = "StorageError"
        /\ req[r].updatedProduct # NullRow
        /\ req[r].updatedProduct # req[r].currentProduct
        /\ req[r].id \in DOMAIN product
        /\ product[req[r].id] = req[r].currentProduct
        /\ \A l \in LogsOf(req[r].id) : l.reason = "Initial stock"

\* ---- C5 ------------------------------------------------------------------
\* C5 (as claimed): once a create request with initial quantity > 0 has
\* answered, its product row is stored exactly if its 'Initial stock'
\* PURCHASE entry is.
C5_CreateAtomic ==
    \A r \in Reqs :
        (req[r].pc = "done" /\ req[r].op = "create" /\ req[r].quantity > 0)
        => ( (req[r].id \in DOMAIN product)
             <=> (\E l \in LogsOf(req[r].id) :
                      l.type = "PURCHASE" /\ l.reason = "Initial stock") )

\* ---- C6 ------------------------------------------------------------------
\* C6 (as claimed): whenever no request is in flight, the stored quantity of
\* every product equals the sum of its PURCHASE and RETURN entries minus the
\* sum of its SALE, ADJUSTMENT, EXPIRED and DAMAGED entries.
C6_QuantityMatchesLog ==
    Quiescent => \A p \in DOMAIN product : product[p].quantity = LedgerSum(p)

\* ---- C7 ------------------------------------------------------------------
\* C7: an increasing movement (PURCHASE, RETURN) of magnitude m > 0 on an
\* existing product that it read with quantity q is never rejected by the
\* guard; its commit stores quantity q + m and status ACTIVE and appends
\* exactly one log entry, with its type and m.
C7_IncreasingMovement ==
    [][\A r \in Reqs :
        (req[r].type \in Increasing /\ req[r].quantity > 0)
        => /\ (Finds(r) /\ req[r].id \in DOMAIN product)
                  => /\ req'[r].pc = "us_update"
                     /\ req'[r].newQuantity =
                            product[req[r].id].quantity + req[r].quantity
           /\ Commits(r)
                  => /\ product'[req[r].id].quantity =
                            req[r].currentProduct.quantity + req[r].quantity
                     /\ product'[req[r].id].status = "ACTIVE"
                     /\ inventoryLogs' = Append(inventoryLogs, RequestedEntry(r))]_vars

\* A RETURN of m > 0 has committed: the row holds q + m, ACTIVE, and the log
\* ends with the RETURN entry.
C7_Witness ==
    \E r \in Reqs :
        /\ Succeeded(r)
        /\ req[r].type = "RETURN" /\ req[r].quantity > 0
        /\ req[r].id \in DOMAIN product
        /\ product[req[r].id].quantity =
               req[r].currentProduct.quantity + req[r].quantity
        /\ product[req[r].id].status = "ACTIVE"
        /\ Len(inventoryLogs) > 0
        /\ inventoryLogs[Len(inventoryLogs)].type = "RETURN"
        /\ inventoryLogs[Len(inventoryLogs)].quantity = req[r].quantity

\* ---- C8 ------------------------------------------------------------------
\* C8: a decreasing movement (SALE, ADJUSTMENT, EXPIRED, DAMAGED) of magnitude
\* m <= q on an existing product that it read with quantity q is never
\* rejected by the guard; its commit stores quantity q - m, with status
\* OUT_OF_STOCK exactly when that is 0, and appends one entry of its type
\* and m. The four types are treated alike.
C8_DecreasingMovement ==
    [][\A r \in Reqs :
        req[r].type \in Decreasing
        => /\ ( /\ Finds(r)
                /\ req[r].id \in DOMAIN product
                /\ req[r].quantity <= product[req[r].id].quantity )
                  => /\ req'[r].pc = "us_update"
                     /\ req'[r].newQuantity =
                            product[req[r].id].quantity - req[r].quantity
           /\ Commits(r)
                  => /\ product'[req[r].id].quantity =
                            req[r].currentProduct.quantity - req[r].quantity
                     /\ (req[r].quantity = req[r].currentProduct.quantity)
                            => product'[req[r].id].status = "OUT_OF_STOCK"
                     /\ inventoryLogs' = Append(inventoryLogs, RequestedEntry(r))]_vars

\* An ADJUSTMENT of the whole stock q > 0 has committed: quantity 0,
\* OUT_OF_STOCK, and the log ends with the ADJUSTMENT entry of magnitude q.
C8_Witness ==
    \E r \in Reqs :
        /\ Succeeded(r)
        /\ req[r].type = "ADJUSTMENT"
        /\ req[r].quantity > 0
        /\ req[r].quantity = req[r].currentProduct.quantity
        /\ req[r].currentProduct.status = "ACTIVE"
        /\ req[r].id \in DOMAIN product
        /\ product[req[r].id].quantity = 0
        /\ product[req[r].id].status = "OUT_OF_STOCK"
        /\ Len(inventoryLogs) > 0
        /\ inventoryLogs[Len(inventoryLogs)].type = "ADJUSTMENT"
        /\ inventoryLogs[Len(inventoryLogs)].quantity = req[r].quantity

\* ---- C9 ------------------------------------------------------------------
\* C9: the commit of every successful adjustStock leaves the product with
\* status OUT_OF_STOCK if its new quantity is 0 and ACTIVE otherwise, whatever
\* its status was before.
C9_StatusDerivation ==
    [][\A r \in Reqs :
        Commits(r)
        => product'[req[r].id].status =
               IF product'[req[r].id].quantity = 0 THEN "OUT_OF_STOCK" ELSE "ACTIVE"]_vars

\* A movement has committed on a product that was DISCONTINUED or EXPIRED when
\* the movement read it, and the status is now the derived one.
C9_Witness ==
    \E r \in Reqs :
        /\ Succeeded(r)
        /\ req[r].currentProduct.status \in {"DISCONTINUED", "EXPIRED"}
        /\ req[r].id \in DOMAIN product
        /\ product[req[r].id] = req[r].updatedProduct
        /\ product[req[r].id].status \in {"ACTIVE", "OUT_OF_STOCK"}

\* ---- C10 -----------------------------------------------------------------
\* C10 (as claimed): every stored product whose quantity is 0 has status
\* OUT_OF_STOCK.
C10_ZeroIsOutOfStock ==
    \A p \in DOMAIN product :
        product[p].quantity = 0 => product[p].status = "OUT_OF_STOCK"

\* C10 (amended): every stored product whose quantity is 0 and on which a
\* stock movement has committed has status OUT_OF_STOCK; a product with
\* quantity 0 and another status was created with quantity 0 and has not been
\* moved since.
C10_ZeroIsOutOfStockOnceMoved ==
    \A p \in DOMAIN product :
        (product[p].quantity = 0 /\ product[p].updatedAt > 0)
        => product[p].status = "OUT_OF_STOCK"

\* A product that was not OUT_OF_STOCK has been moved to quantity 0 and is
\* OUT_OF_STOCK now.
C10_Witness ==
    \E r \in Reqs :
        /\ Succeeded(r)
        /\ req[r].currentProduct.status # "OUT_OF_STOCK"
        /\ req[r].id \in DOMAIN product
        /\ product[req[r].id] = req[r].updatedProduct
        /\ product[req[r].id].quantity = 0
        /\ product[req[r].id].updatedAt > 0
        /\ product[req[r].id].status = "OUT_OF_STOCK"

\* ---- The catalog: sku, barcode, category and supplier of a product ------

MaxCatalog == 2      \* products the catalog specification creates

Skus == {"sku-a", "sku-b"}
NoBarcode == "null"
Barcodes == {"bar-x"}
CategoryIds == {"cat-1", "cat-2"}
SupplierIds == {"sup-1"}
\* A field an update body leaves out.
NoField == "undefined"

\* A free request slot of the catalog specification.
CatIdle ==
    [pc |-> "idle", op |-> "none", id |-> 0, sku |-> NoField, barcode |-> NoField,
     categoryId |-> NoField, supplierId |-> NoField, quantity |-> 0, res |-> NoRes]

\* The catalog starts with its categories and suppliers stored and no product.
InitCatalog ==
    /\ product = <<>>
    /\ inventoryLogs = <<>>
    /\ nextId = 1
    /\ nextLogId = 1
    /\ lock = [p \in ProductIds |-> 0]
    /\ req = [r \in Reqs |-> CatIdle]
    /\ calls = 0
    /\ now = 0
    /\ user = <<>>
    /\ catalog = <<>>
    /\ category = CategoryIds
    /\ supplier = SupplierIds

\* What the catalog handlers leave alone.
ledger == <<product, lock, user, now>>

\* Product_sku_key and Product_barcode_key: a row other than 'except' holds
\* the sku, or the barcode when it is not null.
UniqueViolation(sku, barcode, except) ==
    \E p \in DOMAIN catalog \ {except} :
        \/ catalog[p].sku = sku
        \/ barcode # NoBarcode /\ catalog[p].barcode = barcode

\* Product_categoryId_fkey and Product_supplierId_fkey.
ForeignKeyViolation(categoryId, supplierId) ==
    categoryId \notin category \/ supplierId \notin supplier

\* Number of products of a category, of a supplier (_count.products).
CategoryProducts(c) == Cardinality({p \in DOMAIN catalog : catalog[p].categoryId = c})
SupplierProducts(c) == Cardinality({p \in DOMAIN catalog : catalog[p].supplierId = c})

\* POST /products: the directory side of ProductController.create.
StartCatalogCreate(r, sku, barcode, categoryId, supplierId, quantity) ==
    /\ CanStart(r)
    /\ nextId + Cardinality({r2 \in Reqs : req[r2].pc \in {"cc_find", "cc_create"}})
           <= MaxCatalog
    /\ req' = [req EXCEPT ![r] = [CatIdle EXCEPT
            !.pc = "cc_find", !.op = "create", !.sku = sku, !.barcode = barcode,
            !.categoryId = categoryId, !.supplierId = supplierId,
            !.quantity = quantity]]
    /\ calls' = calls + 1
    /\ UNCHANGED <<inventoryLogs, nextId, nextLogId, catalog, category, supplier, ledger>>

\* prisma.product.findFirst on the sku and, if one is given, the barcode:
\* ConflictError when a product has either.
CcFind(r) ==
    /\ req[r].pc = "cc_find"
    /\ req' = [req EXCEPT ![r] =
            IF UniqueViolation(req[r].sku, req[r].barcode, 0)
            THEN Throw(r, "ConflictError")
            ELSE [req[r] EXCEPT !.pc = "cc_create"]]
    /\ UNCHANGED <<inventoryLogs, nextId, nextLogId, calls, catalog, category, supplier, ledger>>

\* Mutant: the table has no unique index on sku and barcode.
CcCreate_NoUniqueIndex(r) ==
    /\ req[r].pc = "cc_create"
    /\ IF ForeignKeyViolation(req[r].categoryId, req[r].supplierId)
       THEN /\ req' = [req EXCEPT ![r] = Throw(r, "P2003")]
            /\ UNCHANGED <<catalog, nextId>>
       ELSE /\ catalog' = catalog @@ (nextId :>
                    [sku |-> req[r].sku, barcode |-> req[r].barcode,
                     categoryId |-> req[r].categoryId, supplierId |-> req[r].supplierId])
            /\ nextId' = nextId + 1
            /\ req' = [req EXCEPT ![r] =
                    IF req[r].quantity > 0
                    THEN [req[r] EXCEPT !.pc = "cc_log", !.id = nextId]
                    ELSE [Respond(r, 201, "none") EXCEPT !.id = nextId]]
    /\ UNCHANGED <<inventoryLogs, nextLogId, calls, category, supplier, ledger>>

\* prisma.product.create: one statement; the unique indexes refuse a taken
\* sku or barcode (P2002), the foreign keys a category or supplier that is
\* not stored (P2003).
CcCreate(r) ==
    /\ req[r].pc = "cc_create"
    /\ IF UniqueViolation(req[r].sku, req[r].barcode, 0)
       THEN /\ req' = [req EXCEPT ![r] = Throw(r, "P2002")]
            /\ UNCHANGED <<catalog, nextId>>
       ELSE IF ForeignKeyViolation(req[r].categoryId, req[r].supplierId)
       THEN /\ req' = [req EXCEPT ![r] = Throw(r, "P2003")]
            /\ UNCHANGED <<catalog, nextId>>
       ELSE /\ catalog' = catalog @@ (nextId :>
                    [sku |-> req[r].sku, barcode |-> req[r].barcode,
                     categoryId |-> req[r].categoryId, supplierId |-> req[r].supplierId])
            /\ nextId' = nextId + 1
            /\ req' = [req EXCEPT ![r] =
                    IF req[r].quantity > 0
                    THEN [req[r] EXCEPT !.pc = "cc_log", !.id = nextId]
                    ELSE [Respond(r, 201, "none") EXCEPT !.id = nextId]]
    /\ UNCHANGED <<inventoryLogs, nextLogId, calls, category, supplier, ledger>>

\* prisma.inventoryLog.create of the initial stock; 201.
CcCreateLog(r) ==
    /\ req[r].pc = "cc_log"
    /\ inventoryLogs' = Append(inventoryLogs,
            [id |-> nextLogId, productId |-> req[r].id, type |-> "PURCHASE",
             quantity |-> req[r].quantity, reason |-> "Initial stock"])
    /\ nextLogId' = nextLogId + 1
    /\ req' = [req EXCEPT ![r] = Respond(r, 201, "none")]
    /\ UNCHANGED <<nextId, calls, catalog, category, supplier, ledger>>

\* A storage call of create fails: 500; what is committed stays.
CcFail(r) ==
    /\ req[r].pc \in {"cc_find", "cc_create", "cc_log"}
    /\ req' = [req EXCEPT ![r] = Throw(r, "StorageError")]
    /\ UNCHANGED <<inventoryLogs, nextId, nextLogId, calls, catalog, category, supplier, ledger>>

\* PUT /products/:id: the directory side of ProductController.update; each of
\* sku, barcode and categoryId is given or left out.
StartCatalogUpdate(r, id, sku, barcode, categoryId) ==
    /\ CanStart(r)
    /\ req' = [req EXCEPT ![r] = [CatIdle EXCEPT
            !.pc = "cu_find", !.op = "update", !.id = id, !.sku = sku,
            !.barcode = barcode, !.categoryId = categoryId]]
    /\ calls' = calls + 1
    /\ UNCHANGED <<inventoryLogs, nextId, nextLogId, catalog, category, supplier, ledger>>

\* prisma.product.findUnique: NotFoundError if there is no row; the duplicate
\* check is made only if the body changes the sku or the barcode.
CuFind(r) ==
    /\ req[r].pc = "cu_find"
    /\ req' = [req EXCEPT ![r] =
            IF req[r].id \notin DOMAIN catalog
            THEN Throw(r, "NotFoundError")
            ELSE LET existingProduct == catalog[req[r].id]
                 IN IF \/ req[r].sku # NoField /\ req[r].sku # existingProduct.sku
                       \/ req[r].barcode # NoField /\ req[r].barcode # existingProduct.barcode
                    THEN [req[r] EXCEPT !.pc = "cu_dup"]
                    ELSE [req[r] EXCEPT !.pc = "cu_update"]]
    /\ UNCHANGED <<inventoryLogs, nextId, nextLogId, calls, catalog, category, supplier, ledger>>

\* prisma.product.findFirst on another product with the sku or the barcode of
\* the body (a field left out matches nothing): ConflictError if there is one.
CuFindDuplicate(r) ==
    /\ req[r].pc = "cu_dup"
    /\ req' = [req EXCEPT ![r] =
            IF \E p \in DOMAIN catalog \ {req[r].id} :
                  \/ req[r].sku # NoField /\ catalog[p].sku = req[r].sku
                  \/ req[r].barcode # NoField /\ catalog[p].barcode = req[r].barcode
            THEN Throw(r, "ConflictError")
            ELSE [req[r] EXCEPT !.pc = "cu_update"]]
    /\ UNCHANGED <<inventoryLogs, nextId, nextLogId, calls, catalog, category, supplier, ledger>>

\* The row an update body makes of a stored row.
UpdatedRow(row, sku, barcode, categoryId) ==
    [sku |-> IF sku = NoField THEN row.sku ELSE sku,
     barcode |-> IF barcode = NoField THEN row.barcode ELSE barcode,
     categoryId |-> IF categoryId = NoField THEN row.categoryId ELSE categoryId,
     supplierId |-> row.supplierId]

\* prisma.product.update: one statement; P2025 if the row is gone, P2002 from
\* the unique indexes, P2003 from the foreign keys.
CuUpdate(r) ==
    /\ req[r].pc = "cu_update"
    /\ IF req[r].id \notin DOMAIN catalog
       THEN /\ req' = [req EXCEPT ![r] = Throw(r, "P2025")]
            /\ UNCHANGED catalog
       ELSE LET row == UpdatedRow(catalog[req[r].id], req[r].sku, req[r].barcode,
                                  req[r].categoryId)
            IN IF UniqueViolation(row.sku, row.barcode, req[r].id)
               THEN /\ req' = [req EXCEPT ![r] = Throw(r, "P2002")]
                    /\ UNCHANGED catalog
               ELSE IF ForeignKeyViolation(row.categoryId, row.supplierId)
               THEN /\ req' = [req EXCEPT ![r] = Throw(r, "P2003")]
                    /\ UNCHANGED catalog
               ELSE /\ catalog' = [catalog EXCEPT ![req[r].id] = row]
                    /\ req' = [req EXCEPT ![r] = Respond(r, 200, "none")]
    /\ UNCHANGED <<inventoryLogs, nextId, nextLogId, calls, category, supplier, ledger>>

\* A storage call of update fails: 500.
CuFail(r) ==
    /\ req[r].pc \in {"cu_find", "cu_dup", "cu_update"}
    /\ req' = [req EXCEPT ![r] = Throw(r, "StorageError")]
    /\ UNCHANGED <<inventoryLogs, nextId, nextLogId, calls, catalog, category, supplier, ledger>>

\* DELETE /categories/:id.
StartCategoryDelete(r, id) ==
    /\ CanStart(r)
    /\ req' = [req EXCEPT ![r] = [CatIdle EXCEPT
            !.pc = "cd_find", !.op = "categoryDelete", !.categoryId = id]]
    /\ calls' = calls + 1
    /\ UNCHANGED <<inventoryLogs, nextId, nextLogId, catalog, category, supplier, ledger>>

\* prisma.category.findUnique with the number of its products: NotFoundError
\* if it is not stored, ValidationError if it has a product.
CdFind(r) ==
    /\ req[r].pc = "cd_find"
    /\ req' = [req EXCEPT ![r] =
            IF req[r].categoryId \notin category
            THEN Throw(r, "NotFoundError")
            ELSE IF CategoryProducts(req[r].categoryId) > 0
            THEN Throw(r, "ValidationError")
            ELSE [req[r] EXCEPT !.pc = "cd_delete"]]
    /\ UNCHANGED <<inventoryLogs, nextId, nextLogId, calls, catalog, category, supplier, ledger>>

\* Mutant: Product_categoryId_fkey does not restrict the delete.
CdDelete_NoForeignKey(r) ==
    /\ req[r].pc = "cd_delete"
    /\ IF req[r].categoryId \notin category
       THEN /\ req' = [req EXCEPT ![r] = Throw(r, "P2025")]
            /\ UNCHANGED category
       ELSE /\ category' = category \ {req[r].categoryId}
            /\ req' = [req EXCEPT ![r] = Respond(r, 204, "none")]
    /\ UNCHANGED <<inventoryLogs, nextId, nextLogId, calls, catalog, supplier, ledger>>

\* prisma.category.delete: one statement; P2025 if the row is gone, P2003 if
\* a product references it (ON DELETE RESTRICT); 204.
CdDelete(r) ==
    /\ req[r].pc = "cd_delete"
    /\ IF req[r].categoryId \notin category
       THEN /\ req' = [req EXCEPT ![r] = Throw(r, "P2025")]
            /\ UNCHANGED category
       ELSE IF CategoryProducts(req[r].categoryId) > 0
       THEN /\ req' = [req EXCEPT ![r] = Throw(r, "P2003")]
            /\ UNCHANGED category
       ELSE /\ category' = category \ {req[r].categoryId}
            /\ req' = [req EXCEPT ![r] = Respond(r, 204, "none")]
    /\ UNCHANGED <<inventoryLogs, nextId, nextLogId, calls, catalog, supplier, ledger>>

\* A storage call of the category delete fails: 500.
CdFail(r) ==
    /\ req[r].pc \in {"cd_find", "cd_delete"}
    /\ req' = [req EXCEPT ![r] = Throw(r, "StorageError")]
    /\ UNCHANGED <<inventoryLogs, nextId, nextLogId, calls, catalog, category, supplier, ledger>>

\* DELETE /suppliers/:id.
StartSupplierDelete(r, id) ==
    /\ CanStart(r)
    /\ req' = [req EXCEPT ![r] = [CatIdle EXCEPT
            !.pc = "sd_find", !.op = "supplierDelete", !.supplierId = id]]
    /\ calls' = calls + 1
    /\ UNCHANGED <<inventoryLogs, nextId, nextLogId, catalog, category, supplier, ledger>>

\* prisma.supplier.findUnique with the number of its products.
SdFind(r) ==
    /\ req[r].pc = "sd_find"
    /\ req' = [req EXCEPT ![r] =
            IF req[r].supplierId \notin supplier
            THEN Throw(r, "NotFoundError")
            ELSE IF SupplierProducts(req[r].supplierId) > 0
            THEN Throw(r, "ValidationError")
            ELSE [req[r] EXCEPT !.pc = "sd_delete"]]
    /\ UNCHANGED <<inventoryLogs, nextId, nextLogId, calls, catalog, category, supplier, ledger>>

\* prisma.supplier.delete: P2025 if gone, P2003 if referenced; 204.
SdDelete(r) ==
    /\ req[r].pc = "sd_delete"
    /\ IF req[r].supplierId \notin supplier
       THEN /\ req' = [req EXCEPT ![r] = Throw(r, "P2025")]
            /\ UNCHANGED supplier
       ELSE IF SupplierProducts(req[r].supplierId) > 0
       THEN /\ req' = [req EXCEPT ![r] = Throw(r, "P2003")]
            /\ UNCHANGED supplier
       ELSE /\ supplier' = supplier \ {req[r].supplierId}
            /\ req' = [req EXCEPT ![r] = Respond(r, 204, "none")]
    /\ UNCHANGED <<inventoryLogs, nextId, nextLogId, calls, catalog, category, ledger>>

\* A storage call of the supplier delete fails: 500.
SdFail(r) ==
    /\ req[r].pc \in {"sd_find", "sd_delete"}
    /\ req' = [req EXCEPT ![r] = Throw(r, "StorageError")]
    /\ UNCHANGED <<inventoryLogs, nextId, nextLogId, calls, catalog, category, supplier, ledger>>

NextCatalog ==
    \/ \E r \in Reqs, sku \in Skus, barcode \in Barcodes \cup {NoBarcode},
          c \in CategoryIds, s \in SupplierIds, q \in {0, 1} :
              StartCatalogCreate(r, sku, barcode, c, s, q)
    \/ \E r \in Reqs : CcFind(r)
    \/ \E r \in Reqs : CcCreate(r)
    \/ \E r \in Reqs : CcCreateLog(r)
    \/ \E r \in Reqs : CcFail(r)
    \/ \E r \in Reqs, id \in 1..MaxCatalog, sku \in Skus \cup {NoField},
          barcode \in Barcodes \cup {NoField}, c \in CategoryIds \cup {NoField} :
              StartCatalogUpdate(r, id, sku, barcode, c)
    \/ \E r \in Reqs : CuFind(r)
    \/ \E r \in Reqs : CuFindDuplicate(r)
    \/ \E r \in Reqs : CuUpdate(r)
    \/ \E r \in Reqs : CuFail(r)
    \/ \E r \in Reqs, id \in CategoryIds : StartCategoryDelete(r, id)
    \/ \E r \in Reqs : CdFind(r)
    \/ \E r \in Reqs : CdDelete(r)
    \/ \E r \in Reqs : CdFail(r)
    \/ \E r \in Reqs, id \in SupplierIds : StartSupplierDelete(r, id)
    \/ \E r \in Reqs : SdFind(r)
    \/ \E r \in Reqs : SdDelete(r)
    \/ \E r \in Reqs : SdFail(r)

SpecCatalog == InitCatalog /\ [][NextCatalog]_vars

\* ---- The product router behind apiKeyAuth --------------------------------

MaxUsers == 1        \* users stored

UserIds == 1..MaxUsers
Role == {"USER", "ADMIN", "MANAGER", "PHARMACIST"}
NullUser == [role |-> "null", isBlocked |-> FALSE, refreshToken |-> 0]

\* AuthMiddleware.isPharmacist, isManagerOrAdmin; a route with no role list
\* is not authenticated at all.
PharmacistRoles == {"ADMIN", "MANAGER", "PHARMACIST"}
ManagerRoles == {"ADMIN", "MANAGER"}
Public == {}

\* Request paths below /api/v1/products, as their segments; "id-1" is a uuid.
Uuids == {"id-1"}
Paths == {<<>>, <<"low-stock">>, <<"expiring">>, <<"id-1">>, <<"id-1", "stock">>}
Methods == {"GET", "POST", "PUT", "DELETE"}

\* The routes of the product router in the order they are registered.
Routes ==
    << [method |-> "POST", path |-> <<>>, roles |-> PharmacistRoles,
        validate |-> TRUE, handler |-> "create"],
       [method |-> "GET", path |-> <<>>, roles |-> Public,
        validate |-> TRUE, handler |-> "getAll"],
       [method |-> "GET", path |-> <<":id">>, roles |-> Public,
        validate |-> TRUE, handler |-> "getOne"],
       [method |-> "PUT", path |-> <<":id">>, roles |-> PharmacistRoles,
        validate |-> TRUE, handler |-> "update"],
       [method |-> "PUT", path |-> <<":id", "stock">>, roles |-> PharmacistRoles,
        validate |-> TRUE, handler |-> "updateStock"],
       [method |-> "DELETE", path |-> <<":id">>, roles |-> ManagerRoles,
        validate |-> TRUE, handler |-> "delete"],
       [method |-> "GET", path |-> <<"low-stock">>, roles |-> Public,
        validate |-> FALSE, handler |-> "getLowStock"],
       [method |-> "GET", path |-> <<"expiring">>, roles |-> Public,
        validate |-> FALSE, handler |-> "getExpiring"] >>

\* Express matches a path against a route's pattern segment by segment; a
\* parameter segment (':id') matches any one segment.
Matches(route, method, path) ==
    /\ route.method = method
    /\ Len(route.path) = Len(path)
    /\ \A i \in 1..Len(path) : route.path[i] = ":id" \/ route.path[i] = path[i]

\* The first registered route that matches, 0 if none does.
Dispatch(method, path) ==
    LET hits == {i \in 1..Len(Routes) : Matches(Routes[i], method, path)}
    IN IF hits = {} THEN 0 ELSE CHOOSE i \in hits : \A j \in hits : i <= j

\* The params of every schema of these routes: the id, if any, is a uuid.
ParamsValid(path) == Len(path) = 0 \/ path[1] \in Uuids

\* Authorization headers: none, or a bearer token with a good or a bad
\* signature or expiry, whose payload names a user id.
NoBearer == [present |-> FALSE, valid |-> FALSE, id |-> 0]
Bearers ==
    {NoBearer} \cup [present : {TRUE}, valid : BOOLEAN, id : UserIds]

\* A free request slot of the router specification.
RouterIdle ==
    [pc |-> "idle", op |-> "none", method |-> "none", path |-> <<>>, apiKey |-> FALSE,
     bearer |-> NoBearer, route |-> 0, user |-> NullUser, handler |-> "none",
     res |-> NoRes]

\* The router starts with the users that registered: each user id is stored,
\* with some role, blocked or not, or is not stored.
InitRouter ==
    /\ product = <<>>
    /\ inventoryLogs = <<>>
    /\ nextId = 1
    /\ nextLogId = 1
    /\ lock = [p \in ProductIds |-> 0]
    /\ req = [r \in Reqs |-> RouterIdle]
    /\ calls = 0
    /\ now = 0
    /\ \E ids \in SUBSET UserIds :
          user \in [ids -> [role : Role, isBlocked : BOOLEAN, refreshToken : {0}]]
    /\ catalog = <<>>
    /\ category = {}
    /\ supplier = {}

\* What the middleware never writes.
tables == <<db, user, catalog, category, supplier>>

\* The middleware that runs after position 'after' on the request's route.
NextMiddleware(route, after) ==
    IF after = "route" /\ Routes[route].roles # Public THEN "jwt"
    ELSE IF after \in {"route", "hasRole"} /\ Routes[route].validate THEN "validate"
    ELSE "handler"

\* The request moves to the middleware or handler at position pc.
Enter(r, pc) ==
    IF pc = "handler"
    THEN [req[r] EXCEPT !.pc = "handler", !.handler = Routes[req[r].route].handler]
    ELSE [req[r] EXCEPT !.pc = pc]

\* A request arrives. Requests share no state in the middleware, so one slot
\* serves them one after the other.
StartRequest(r, method, path, apiKey, bearer) ==
    /\ calls < MaxCalls
    /\ r = 1
    /\ req[r].pc \in {"idle", "done", "handler"}
    /\ req' = [req EXCEPT ![r] = [RouterIdle EXCEPT
            !.pc = "apiKeyAuth", !.op = "request", !.method = method, !.path = path,
            !.apiKey = apiKey, !.bearer = bearer]]
    /\ calls' = calls + 1
    /\ UNCHANGED <<tables, now>>

\* apiKeyAuth, then the router: 401 without the valid key; the first matching
\* route takes the request; notFoundHandler answers 404 if none matches.
ApiKeyAuth(r) ==
    /\ req[r].pc = "apiKeyAuth"
    /\ req' = [req EXCEPT ![r] =
            IF ~req[r].apiKey
            THEN Respond(r, 401, "Unauthorized")
            ELSE LET route == Dispatch(req[r].method, req[r].path)
                 IN IF route = 0
                    THEN Respond(r, 404, "notFoundHandler")
                    ELSE [req[r] EXCEPT !.route = route,
                                        !.pc = NextMiddleware(route, "route"),
                                        !.handler = IF NextMiddleware(route, "route") = "handler"
                                                    THEN Routes[route].handler ELSE "none"]]
    /\ UNCHANGED <<tables, calls, now>>

\* passport.authenticate('jwt') with JwtStrategy: 401 unless the bearer token
\* verifies and its user is stored and not blocked; then req.user is the
\* stored user.
JwtAuthenticate(r) ==
    /\ req[r].pc = "jwt"
    /\ req' = [req EXCEPT ![r] =
            IF ~req[r].bearer.present \/ ~req[r].bearer.valid
            THEN Respond(r, 401, "Unauthorized")
            ELSE IF req[r].bearer.id \notin DOMAIN user
            THEN Respond(r, 401, "Unauthorized")
            ELSE IF user[req[r].bearer.id].isBlocked
            THEN Respond(r, 401, "Unauthorized")
            ELSE [req[r] EXCEPT !.pc = "hasRole", !.user = user[req[r].bearer.id]]]
    /\ UNCHANGED <<tables, calls, now>>

\* The user lookup of JwtStrategy fails: done(error), 500.
JwtFail(r) ==
    /\ req[r].pc = "jwt"
    /\ req[r].bearer.present /\ req[r].bearer.valid
    /\ req' = [req EXCEPT ![r] = Throw(r, "StorageError")]
    /\ UNCHANGED <<tables, calls, now>>

\* Mutant: the role list is not consulted.
HasRole_AnyRole(r) ==
    /\ req[r].pc = "hasRole"
    /\ req' = [req EXCEPT ![r] =
            IF req[r].user = NullUser
            THEN Respond(r, 401, "Unauthorized")
            ELSE Enter(r, NextMiddleware(req[r].route, "hasRole"))]
    /\ UNCHANGED <<tables, calls, now>>

\* AuthMiddleware.hasRole: 401 without req.user, 403 if the user's role is
\* not in the list, else next().
HasRole(r) ==
    /\ req[r].pc = "hasRole"
    /\ req' = [req EXCEPT ![r] =
            IF req[r].user = NullUser
            THEN Respond(r, 401, "Unauthorized")
            ELSE IF req[r].user.role \notin Routes[req[r].route].roles
            THEN Respond(r, 403, "Forbidden")
            ELSE Enter(r, NextMiddleware(req[r].route, "hasRole"))]
    /\ UNCHANGED <<tables, calls, now>>

\* validate(schema) answers a request that does not fit the schema itself
\* (400) ...
ValidateRejects(r) ==
    /\ req[r].pc = "validate"
    /\ ~ParamsValid(req[r].path)
    /\ req' = [req EXCEPT ![r] = Throw(r, "ValidationError")]
    /\ UNCHANGED <<tables, calls, now>>

\* ... or hands the request on to the handler.
ValidatePasses(r) ==
    /\ req[r].pc = "validate"
    /\ req' = [req EXCEPT ![r] = Enter(r, "handler")]
    /\ UNCHANGED <<tables, calls, now>>

\* The handler parses the request with its schema first: ValidationError
\* (400) if it does not fit. (What the handler does with a request that fits
\* is the matter of the other specifications.)
HandlerParse(r) ==
    /\ req[r].pc = "handler"
    /\ Routes[req[r].route].validate
    /\ ~ParamsValid(req[r].path)
    /\ req' = [req EXCEPT ![r] = Throw(r, "ValidationError")]
    /\ UNCHANGED <<tables, calls, now>>

NextRouter ==
    \/ \E r \in Reqs, method \in Methods, path \in Paths, apiKey \in BOOLEAN,
          bearer \in Bearers : StartRequest(r, method, path, apiKey, bearer)
    \/ \E r \in Reqs : ApiKeyAuth(r)
    \/ \E r \in Reqs : JwtAuthenticate(r)
    \/ \E r \in Reqs : JwtFail(r)
    \/ \E r \in Reqs : HasRole(r)
    \/ \E r \in Reqs : ValidateRejects(r)
    \/ \E r \in Reqs : ValidatePasses(r)
    \/ \E r \in Reqs : HandlerParse(r)

SpecRouter == InitRouter /\ [][NextRouter]_vars

\* ---- the single-record fetch over a long history ---------------------------

MaxStored == 11      \* movements already stored when the fetch specification starts

\* The entries n accepted movements of product 1 left behind: a purchase of
\* one unit and a sale of one unit in turn, in the order they were accepted.
\* Entries of one product get their createdAt while the product row is locked
\* by their transaction, so this order is also their createdAt order.
StoredLogs(n) ==
    [i \in 1..n |-> [id |-> i, productId |-> 1,
                     type |-> IF i % 2 = 1 THEN "PURCHASE" ELSE "SALE",
                     quantity |-> 1, reason |-> "recount"]]

\* Product 1 after it was created with no stock and n movements were accepted.
StoredRow(n) ==
    [quantity |-> n % 2,
     status |-> IF n = 0 THEN "ACTIVE" ELSE DerivedStatus(n % 2),
     updatedAt |-> n]

\* The store holds nothing, or product 1 with the history of n movements.
InitFetch ==
    /\ \E n \in (0 - 1)..MaxStored :
          IF n < 0
          THEN /\ product = <<>>
               /\ inventoryLogs = <<>>
               /\ nextId = 1
               /\ nextLogId = 1
          ELSE /\ product = (1 :> StoredRow(n))
               /\ inventoryLogs = StoredLogs(n)
               /\ nextId = 2
               /\ nextLogId = n + 1
    /\ lock = [p \in ProductIds |-> 0]
    /\ req = [r \in Reqs |-> Idle]
    /\ calls = 0
    /\ now = 0
    /\ user = <<>>
    /\ catalog = <<>>
    /\ category = {}
    /\ supplier = {}

\* updateStock and getOne on the stored product.
NextFetch ==
    \/ \E r \in Reqs :
          \/ \E id \in ProductIds, type \in {"PURCHASE", "SALE"}, reason \in StockReasons :
                StartUpdateStock(r, id, type, 1, reason)
          \/ UsFind(r)
          \/ UsUpdate(r)
          \/ UsCreateLog(r)
          \/ UsCommit(r)
          \/ UsFail(r)
          \/ \E id \in ProductIds : StartGetOne(r, id)
          \/ GoFind(r)
          \/ GoFail(r)

SpecFetch == InitFetch /\ [][NextFetch]_vars

\* ---- the low-stock view ----------------------------------------------------

\* Values of Product.reorderPoint (Int, default 10) among the stored products.
ReorderPoints == {0, 1, 10}

\* The products stored when the low-stock specification starts: the ones the
\* ledger's handlers address, and one more that nothing writes to.
StoredIds == 1..(MaxProducts + 1)

\* Product rows as create and update can leave them. The column reorderPoint,
\* which updateStock never writes, is kept in catalog under the product's id.
InitLowStock ==
    /\ product \in [StoredIds -> [quantity : 0..MaxQty, status : ProductStatus, updatedAt : {0}]]
    /\ \A p \in StoredIds \ ProductIds :
          /\ product[p].quantity \in {0, MaxQty}
          /\ product[p].status \in {"ACTIVE", "DISCONTINUED"}
    /\ catalog \in [StoredIds -> [reorderPoint : ReorderPoints]]
    /\ \A p \in StoredIds \ ProductIds : catalog[p].reorderPoint = 1
    /\ inventoryLogs = <<>>
    /\ nextId = MaxProducts + 2
    /\ nextLogId = 1
    /\ lock = [p \in ProductIds |-> 0]
    /\ req = [r \in Reqs |-> Idle]
    /\ calls = 0
    /\ now = 0
    /\ user = <<>>
    /\ category = {}
    /\ supplier = {}

\* where: { quantity: { lte: fields.reorderPoint }, status: ACTIVE }
LowStock(id) ==
    /\ product[id].quantity <= catalog[id].reorderPoint
    /\ product[id].status = "ACTIVE"

\* The answers findMany may give for the rows ids: each row once, ordered by
\* quantity ascending, rows of equal quantity in any order.
OrderedByQuantity(ids) ==
    {rows \in [1..Cardinality(ids) -> [id : ids, quantity : 0..MaxQty,
                                       status : ProductStatus,
                                       reorderPoint : ReorderPoints]] :
        /\ {rows[i].id : i \in DOMAIN rows} = ids
        /\ \A i \in DOMAIN rows :
              /\ rows[i].quantity = product[rows[i].id].quantity
              /\ rows[i].status = product[rows[i].id].status
              /\ rows[i].reorderPoint = catalog[rows[i].id].reorderPoint
        /\ \A i \in DOMAIN rows, j \in DOMAIN rows :
              i < j => rows[i].quantity <= rows[j].quantity}

\* GET /products/low-stock, as handled by getLowStock.
StartGetLowStock(r) ==
    /\ CanStart(r)
    /\ req' = [req EXCEPT ![r] = [Idle EXCEPT !.pc = "gls_find", !.op = "getLowStock"]]
    /\ calls' = calls + 1
    /\ UNCHANGED db
    /\ UNCHANGED others

\* Mutant: the status is not part of the filter.
GlsFind_AnyStatus(r) ==
    /\ req[r].pc = "gls_find"
    /\ \E rows \in OrderedByQuantity({id \in DOMAIN product :
                                        product[id].quantity <= catalog[id].reorderPoint}) :
          req' = [req EXCEPT ![r] = [Respond(r, 200, "none") EXCEPT !.products = rows]]
    /\ UNCHANGED <<db, calls>>
    /\ UNCHANGED others

\* prisma.product.findMany: one statement, it reads the rows as committed.
GlsFind(r) ==
    /\ req[r].pc = "gls_find"
    /\ \E rows \in OrderedByQuantity({id \in DOMAIN product : LowStock(id)}) :
          req' = [req EXCEPT ![r] = [Respond(r, 200, "none") EXCEPT !.products = rows]]
    /\ UNCHANGED <<db, calls>>
    /\ UNCHANGED others

\* The read of getLowStock fails: 500.
GlsFail(r) ==
    /\ req[r].pc = "gls_find"
    /\ req' = [req EXCEPT ![r] = Throw(r, "StorageError")]
    /\ UNCHANGED <<db, calls>>
    /\ UNCHANGED others

\* updateStock and getLowStock on the stored products.
NextLowStock ==
    \/ \E r \in Reqs :
          \/ \E id \in ProductIds, type \in {"PURCHASE", "SALE"}, q \in 1..MaxQty,
                reason \in StockReasons : StartUpdateStock(r, id, type, q, reason)
          \/ UsFind(r)
          \/ UsUpdate(r)
          \/ UsCreateLog(r)
          \/ UsCommit(r)
          \/ UsFail(r)
          \/ StartGetLowStock(r)
          \/ GlsFind(r)
          \/ GlsFail(r)

SpecLowStock == InitLowStock /\ [][NextLowStock]_vars

\* ---- responses of the controllers that answer on res themselves ------------
\* ProductController.getAll, AuthController.register and
\* AuthController.refreshToken of src/controllers, which call res.status().json()
\* and next() in their own code.

MaxNow == 1          \* seconds the clock may advance

\* An email address is named by the number of the only user who can own it
\* (User.email is unique).
Emails == UserIds

\* A refresh token is jwt.sign({ id }, secret): the user's id and the second it
\* was issued in (iat). Two tokens of one user issued in one second are equal.
NoToken == [id |-> 0, iat |-> 0]     \* no token: undefined in a body, null in a row
BadToken == [id |-> 0, iat |-> 1]    \* a string jwt.verify refuses
Token(id, iat) == [id |-> id, iat |-> iat]
Tokens == [id : UserIds, iat : 0..MaxNow]

\* jwt.verify
Verifies(token) == token.id \in UserIds

RespIdle ==
    [pc |-> "idle", op |-> "none", status |-> NoStatus, valid |-> TRUE, email |-> 0,
     token |-> NoToken, id |-> 0, sends |-> <<>>]

InitResponses ==
    /\ product = <<>>
    /\ inventoryLogs = <<>>
    /\ nextId = 1
    /\ nextLogId = 1
    /\ lock = [p \in ProductIds |-> 0]
    /\ req = [r \in Reqs |-> RespIdle]
    /\ calls = 0
    /\ now = 0
    /\ user = <<>>
    /\ catalog = <<>>
    /\ category = {}
    /\ supplier = {}

\* Everything but the requests, the user table and the call counter.
rest == <<db, catalog, category, supplier, now>>

\* res.status(status).json(...) called by 'by'. The first call for a request
\* puts the response on the wire; sends lists every call, in order.
Send(q, by, status) == [q EXCEPT !.sends = Append(@, [by |-> by, status |-> status])]

\* next() with no error, called by a controller: no later route matches, so
\* notFoundHandler runs and calls res.status(404).json(...).
NextNoError(q) == Send(q, "notFoundHandler", 404)

\* next(error): errorHandler answers 500 for an error it has no case for.
NextError(q) == Send(q, "errorHandler", 500)

\* The handler's promise settles.
Finish(q) == [q EXCEPT !.pc = "done"]

\* The second passes.
Tick ==
    /\ now < MaxNow
    /\ now' = now + 1
    /\ UNCHANGED <<db, req, calls, user, catalog, category, supplier>>

\* GET /products?status=...
StartGetAll(r, status) ==
    /\ CanStart(r)
    /\ req' = [req EXCEPT ![r] = [RespIdle EXCEPT !.pc = "ga_status", !.op = "getAll",
                                                  !.status = status]]
    /\ calls' = calls + 1
    /\ UNCHANGED <<rest, user>>

\* if (status) { valid ? where.status = status : (res.status(400).json(), next()) }
\* There is no return after next(): the handler goes on to the query.
GaStatus(r) ==
    /\ req[r].pc = "ga_status"
    /\ req' = [req EXCEPT ![r] =
            IF req[r].status = NoStatus \/ req[r].status \in ProductStatus
            THEN [req[r] EXCEPT !.pc = "ga_query"]
            ELSE [NextNoError(Send(req[r], "controller", 400)) EXCEPT !.pc = "ga_query"]]
    /\ UNCHANGED <<rest, user, calls>>

\* Promise.all([findMany, count]), then res.json(...). If a response was sent
\* already, res.json throws, the catch block calls next(error).
GaQuery(r) ==
    /\ req[r].pc = "ga_query"
    /\ req' = [req EXCEPT ![r] =
            IF req[r].sends = <<>>
            THEN Finish(Send(req[r], "controller", 200))
            ELSE Finish(NextError(Send(req[r], "controller", 200)))]
    /\ UNCHANGED <<rest, user, calls>>

\* The query rejects: catch, next(error).
GaFail(r) ==
    /\ req[r].pc = "ga_query"
    /\ req' = [req EXCEPT ![r] = Finish(NextError(req[r]))]
    /\ UNCHANGED <<rest, user, calls>>

\* POST /auth/register
StartRegister(r, valid, email) ==
    /\ CanStart(r)
    /\ req' = [req EXCEPT ![r] = [RespIdle EXCEPT !.pc = "rg_parse", !.op = "register",
                                                  !.valid = valid, !.email = email]]
    /\ calls' = calls + 1
    /\ UNCHANGED <<rest, user>>

\* The catch block of register for an error that is not a ZodError:
\* res.status(400).json(...), next().
RegisterCatch(q) == Finish(NextNoError(Send(q, "controller", 400)))

\* registerSchema.parse(req.body). On a ZodError the catch block answers 400
\* inside the if, and, with no return, calls res.status(400).json() again;
\* that call throws, next() is not reached.
RgParse(r) ==
    /\ req[r].pc = "rg_parse"
    /\ req' = [req EXCEPT ![r] =
            IF req[r].valid
            THEN [req[r] EXCEPT !.pc = "rg_find"]
            ELSE Finish(Send(Send(req[r], "controller", 400), "controller", 400))]
    /\ UNCHANGED <<rest, user, calls>>

\* AuthService.register: prisma.user.findUnique({ where: { email } })
RgFind(r) ==
    /\ req[r].pc = "rg_find"
    /\ req' = [req EXCEPT ![r] =
            IF \E u \in DOMAIN user : user[u].email = req[r].email
            THEN RegisterCatch(req[r])
            ELSE [req[r] EXCEPT !.pc = "rg_create"]]
    /\ UNCHANGED <<rest, user, calls>>

\* prisma.user.create; the unique index on email refuses a second row (P2002).
RgCreate(r) ==
    /\ req[r].pc = "rg_create"
    /\ IF \E u \in DOMAIN user : user[u].email = req[r].email
       THEN /\ req' = [req EXCEPT ![r] = RegisterCatch(req[r])]
            /\ UNCHANGED user
       ELSE LET id == Cardinality(DOMAIN user) + 1
            IN /\ user' = user @@ (id :> [email |-> req[r].email, role |-> "USER",
                                          isBlocked |-> FALSE, refreshToken |-> NoToken])
               /\ req' = [req EXCEPT ![r] = [req[r] EXCEPT !.pc = "rg_tokens", !.id = id]]
    /\ UNCHANGED <<rest, calls>>

\* AuthService.generateTokens: jwt.sign, prisma.user.update({ refreshToken });
\* then res.status(201).json(result).
RgTokens(r) ==
    /\ req[r].pc = "rg_tokens"
    /\ user' = [user EXCEPT ![req[r].id].refreshToken = Token(req[r].id, now)]
    /\ req' = [req EXCEPT ![r] = Finish(Send(req[r], "controller", 201))]
    /\ UNCHANGED <<rest, calls>>

\* A storage call of register rejects: the catch block.
RgFail(r) ==
    /\ req[r].pc \in {"rg_find", "rg_create", "rg_tokens"}
    /\ req' = [req EXCEPT ![r] = RegisterCatch(req[r])]
    /\ UNCHANGED <<rest, user, calls>>

\* POST /auth/refresh-token
StartOldRefresh(r, token) ==
    /\ CanStart(r)
    /\ req' = [req EXCEPT ![r] = [RespIdle EXCEPT !.pc = "rf_check", !.op = "refreshToken",
                                                  !.token = token]]
    /\ calls' = calls + 1
    /\ UNCHANGED <<rest, user>>

\* The catch block of refreshToken: res.status(401).json(...), next().
RefreshCatch(q) == Finish(NextNoError(Send(q, "controller", 401)))

\* if (!refreshToken) { res.status(400).json(...); next(); } with no return.
RfCheck(r) ==
    /\ req[r].pc = "rf_check"
    /\ req' = [req EXCEPT ![r] =
            IF req[r].token = NoToken
            THEN [NextNoError(Send(req[r], "controller", 400)) EXCEPT !.pc = "rf_verify"]
            ELSE [req[r] EXCEPT !.pc = "rf_verify"]]
    /\ UNCHANGED <<rest, user, calls>>

\* AuthService.refreshToken: jwt.verify throws for a missing or refused token.
RfVerify(r) ==
    /\ req[r].pc = "rf_verify"
    /\ req' = [req EXCEPT ![r] =
            IF Verifies(req[r].token)
            THEN [req[r] EXCEPT !.pc = "rf_find"]
            ELSE RefreshCatch(req[r])]
    /\ UNCHANGED <<rest, user, calls>>

\* prisma.user.findFirst({ where: { id: decoded.id, refreshToken: token } })
RfFind(r) ==
    /\ req[r].pc = "rf_find"
    /\ req' = [req EXCEPT ![r] =
            IF /\ req[r].token.id \in DOMAIN user
               /\ user[req[r].token.id].refreshToken = req[r].token
            THEN [req[r] EXCEPT !.pc = "rf_tokens", !.id = req[r].token.id]
            ELSE RefreshCatch(req[r])]
    /\ UNCHANGED <<rest, user, calls>>

\* generateTokens: jwt.sign, prisma.user.update({ refreshToken }); res.json(tokens).
RfTokens(r) ==
    /\ req[r].pc = "rf_tokens"
    /\ user' = [user EXCEPT ![req[r].id].refreshToken = Token(req[r].id, now)]
    /\ req' = [req EXCEPT ![r] = Finish(Send(req[r], "controller", 200))]
    /\ UNCHANGED <<rest, calls>>

\* A storage call of refreshToken rejects: the catch block.
RfFail(r) ==
    /\ req[r].pc \in {"rf_find", "rf_tokens"}
    /\ req' = [req EXCEPT ![r] = RefreshCatch(req[r])]
    /\ UNCHANGED <<rest, user, calls>>

NextResponses ==
    \/ Tick
    \/ \E r \in Reqs :
          \/ \E status \in {NoStatus, "ACTIVE", "bogus"} : StartGetAll(r, status)
          \/ GaStatus(r)
          \/ GaQuery(r)
          \/ GaFail(r)
          \/ \E valid \in BOOLEAN, email \in Emails : StartRegister(r, valid, email)
          \/ RgParse(r)
          \/ RgFind(r)
          \/ RgCreate(r)
          \/ RgTokens(r)
          \/ RgFail(r)
          \/ \E token \in Tokens \cup {NoToken, BadToken} : StartOldRefresh(r, token)
          \/ RfCheck(r)
          \/ RfVerify(r)
          \/ RfFind(r)
          \/ RfTokens(r)
          \/ RfFail(r)

SpecResponses == InitResponses /\ [][NextResponses]_vars

\* ---- login, refresh and logout of the AuthController built on asyncHandler --

NoEmail == 0         \* an address no user has

AuthIdle ==
    [pc |-> "idle", op |-> "none", valid |-> TRUE, email |-> NoEmail, passwordOk |-> FALSE,
     token |-> NoToken, id |-> 0, issued |-> NoToken, res |-> NoRes]

\* Every user is registered; the refresh token stored is the one issued at
\* registration, or none after a logout.
InitAuth ==
    /\ product = <<>>
    /\ inventoryLogs = <<>>
    /\ nextId = 1
    /\ nextLogId = 1
    /\ lock = [p \in ProductIds |-> 0]
    /\ req = [r \in Reqs |-> AuthIdle]
    /\ calls = 0
    /\ now = 0
    /\ user \in [UserIds -> [email : Emails, role : {"USER"}, isBlocked : {FALSE},
                             refreshToken : Tokens \cup {NoToken}]]
    /\ \A u \in UserIds :
          /\ user[u].email = u
          /\ user[u].refreshToken \in {NoToken, Token(u, 0)}
    /\ catalog = <<>>
    /\ category = {}
    /\ supplier = {}

\* The request is over with no response sent and nothing left that would send
\* one: an error was thrown where nothing catches it.
Lose(r) == [req[r] EXCEPT !.pc = "lost"]

\* generateTokenPair: jwt.sign({ id }) with the current second as iat, then
\* prisma.user.update({ data: { refreshToken } }).
GenerateTokenPair(id) == [user EXCEPT ![id].refreshToken = Token(id, now)]

\* POST /auth/login
StartLogin(r, valid, email, passwordOk) ==
    /\ CanStart(r)
    /\ req' = [req EXCEPT ![r] = [AuthIdle EXCEPT !.pc = "li_parse", !.op = "login",
                                                  !.valid = valid, !.email = email,
                                                  !.passwordOk = passwordOk]]
    /\ calls' = calls + 1
    /\ UNCHANGED <<rest, user>>

\* authSchemas.login.safeParse: a ValidationError thrown here is inside
\* asyncHandler's try, it reaches the error handler (400). Otherwise the handler
\* calls passport.authenticate('local', cb)(...) and returns.
LiParse(r) ==
    /\ req[r].pc = "li_parse"
    /\ req' = [req EXCEPT ![r] =
            IF req[r].valid THEN [req[r] EXCEPT !.pc = "li_find"]
            ELSE Throw(r, "ValidationError")]
    /\ UNCHANGED <<rest, user, calls>>

\* LocalStrategy: findUnique by email, bcrypt.compare. For an unknown user or
\* a wrong password it calls done(null, false, info); the async callback of
\* login then throws ValidationError, which rejects the callback's own promise:
\* neither asyncHandler nor passport sees it.
LiFind(r) ==
    /\ req[r].pc = "li_find"
    /\ req' = [req EXCEPT ![r] =
            IF \E u \in DOMAIN user : user[u].email = req[r].email /\ req[r].passwordOk
            THEN [req[r] EXCEPT !.pc = "li_tokens",
                     !.id = CHOOSE u \in DOMAIN user : user[u].email = req[r].email]
            ELSE Lose(r)]
    /\ UNCHANGED <<rest, user, calls>>

\* LocalStrategy's findUnique rejects: done(error), and the callback's
\* `if (err) throw err` is lost in the same way.
LiFindFail(r) ==
    /\ req[r].pc = "li_find"
    /\ req' = [req EXCEPT ![r] = Lose(r)]
    /\ UNCHANGED <<rest, user, calls>>

\* The callback with a user: generateTokenPair, res.json(response).
LiTokens(r) ==
    /\ req[r].pc = "li_tokens"
    /\ user' = GenerateTokenPair(req[r].id)
    /\ req' = [req EXCEPT ![r] =
            [Respond(r, 200, "none") EXCEPT !.issued = Token(req[r].id, now)]]
    /\ UNCHANGED <<rest, calls>>

\* generateTokenPair's update rejects inside the callback: lost.
LiTokensFail(r) ==
    /\ req[r].pc = "li_tokens"
    /\ req' = [req EXCEPT ![r] = Lose(r)]
    /\ UNCHANGED <<rest, user, calls>>

\* POST /auth/refresh-token
StartRefresh(r, token) ==
    /\ CanStart(r)
    /\ req' = [req EXCEPT ![r] = [AuthIdle EXCEPT !.pc = "rt_verify", !.op = "refreshToken",
                                                  !.token = token]]
    /\ calls' = calls + 1
    /\ UNCHANGED <<rest, user>>

\* safeParse (a body without the token is refused) and jwt.verify: ValidationError.
RtVerify(r) ==
    /\ req[r].pc = "rt_verify"
    /\ req' = [req EXCEPT ![r] =
            IF Verifies(req[r].token) THEN [req[r] EXCEPT !.pc = "rt_find"]
            ELSE Throw(r, "ValidationError")]
    /\ UNCHANGED <<rest, user, calls>>

\* prisma.user.findFirst({ where: { id: decoded.id, refreshToken } }): a plain read.
RtFind(r) ==
    /\ req[r].pc = "rt_find"
    /\ req' = [req EXCEPT ![r] =
            IF /\ req[r].token.id \in DOMAIN user
               /\ user[req[r].token.id].refreshToken = req[r].token
            THEN [req[r] EXCEPT !.pc = "rt_tokens", !.id = req[r].token.id]
            ELSE Throw(r, "ValidationError")]
    /\ UNCHANGED <<rest, user, calls>>

\* generateTokenPair(user), res.json(tokens): the update names the row by id
\* only, whatever token the row holds by now.
RtTokens(r) ==
    /\ req[r].pc = "rt_tokens"
    /\ user' = GenerateTokenPair(req[r].id)
    /\ req' = [req EXCEPT ![r] =
            [Respond(r, 200, "none") EXCEPT !.issued = Token(req[r].id, now)]]
    /\ UNCHANGED <<rest, calls>>

\* A storage call of refreshToken rejects: asyncHandler, error handler, 500.
RtFail(r) ==
    /\ req[r].pc \in {"rt_find", "rt_tokens"}
    /\ req' = [req EXCEPT ![r] = Throw(r, "StorageError")]
    /\ UNCHANGED <<rest, user, calls>>

\* POST /auth/logout, authenticated by an access token of user id.
StartLogout(r, id) ==
    /\ CanStart(r)
    /\ req' = [req EXCEPT ![r] = [AuthIdle EXCEPT !.pc = "lo_update", !.op = "logout",
                                                  !.id = id]]
    /\ calls' = calls + 1
    /\ UNCHANGED <<rest, user>>

\* prisma.user.update({ data: { refreshToken: null } }), res.json.
LoUpdate(r) ==
    /\ req[r].pc = "lo_update"
    /\ user' = [user EXCEPT ![req[r].id].refreshToken = NoToken]
    /\ req' = [req EXCEPT ![r] = Respond(r, 200, "none")]
    /\ UNCHANGED <<rest, calls>>

\* The update of logout rejects: 500.
LoFail(r) ==
    /\ req[r].pc = "lo_update"
    /\ req' = [req EXCEPT ![r] = Throw(r, "StorageError")]
    /\ UNCHANGED <<rest, user, calls>>

NextAuth ==
    \/ Tick
    \/ \E r \in Reqs :
          \/ \E valid \in BOOLEAN, email \in Emails \cup {NoEmail}, passwordOk \in BOOLEAN :
                StartLogin(r, valid, email, passwordOk)
          \/ LiParse(r)
          \/ LiFind(r)
          \/ LiFindFail(r)
          \/ LiTokens(r)
          \/ LiTokensFail(r)
          \/ \E token \in Tokens \cup {NoToken, BadToken} : StartRefresh(r, token)
          \/ RtVerify(r)
          \/ RtFind(r)
          \/ RtTokens(r)
          \/ RtFail(r)
          \/ \E id \in UserIds : StartLogout(r, id)
          \/ LoUpdate(r)
          \/ LoFail(r)

SpecAuth == InitAuth /\ [][NextAuth]_vars

\* ---- C11 -----------------------------------------------------------------
\* C11: non-negative stock. In every reachable state, after any interleaving
\* of create, update, updateStock and delete calls with inputs their schemas
\* accept, every stored product has quantity >= 0.
C11_NonNegativeStock ==
    \A p \in DOMAIN product : product[p].quantity >= 0

\* C11's case: the stock is 0 and a movement that would have taken it below 0
\* (an increasing type with a negative quantity, which the schema accepts) was
\* refused by the guard.
C11_Witness ==
    \E r \in Reqs :
        /\ req[r].pc = "done"
        /\ req[r].op = "updateStock"
        /\ req[r].type \in Increasing
        /\ req[r].quantity < 0
        /\ req[r].res.error = "ValidationError"
        /\ req[r].id \in DOMAIN product
        /\ product[req[r].id].quantity = 0

\* ---- C12 -----------------------------------------------------------------
\* C12 (as claimed): every inventory log entry ever persisted has
\* quantity > 0. The code refutes it: stockUpdateSchema accepts any integer,
\* so a movement of quantity 0 or below is applied and logged as given.
C12_LogQuantitiesPositive ==
    \A i \in DOMAIN inventoryLogs : inventoryLogs[i].quantity > 0

\* ---- C13 -----------------------------------------------------------------
\* C13: unknown product. An updateStock call whose product id does not exist
\* answers 404 NotFoundError at its read, changes no product and creates no
\* log entry.
C13_UnknownProduct ==
    [][\A r \in Reqs :
          (Finds(r) /\ req[r].id \notin DOMAIN product) =>
              /\ req'[r].pc = "done"
              /\ req'[r].res = [status |-> 404, error |-> "NotFoundError"]
              /\ product' = product
              /\ inventoryLogs' = inventoryLogs
              /\ lock' = lock]_vars

\* C13's case: two calls with the same absent id have both answered
\* NotFoundError and the log is empty.
C13_Witness ==
    \E r1 \in Reqs, r2 \in Reqs :
        /\ r1 # r2
        /\ \A r \in {r1, r2} :
              /\ req[r].pc = "done"
              /\ req[r].op = "updateStock"
              /\ req[r].res = [status |-> 404, error |-> "NotFoundError"]
        /\ req[r1].id = req[r2].id
        /\ req[r1].id \notin DOMAIN product
        /\ inventoryLogs = <<>>

\* ---- C14 -----------------------------------------------------------------
\* C14: one log entry per accepted movement. A step of an updateStock call
\* that answers 200 appends exactly one entry, carrying the requested type,
\* quantity and reason; every other step of an updateStock call leaves the log
\* as it is; a call answers 200 only at its commit, hence once.
C14_OneEntryPerMovement ==
    [][\A r \in Reqs :
          (req[r].pc \in UsPcs /\ Stepped(r)) =>
              /\ req'[r].pc \in UsPcs \cup {"done"}
              /\ IF req'[r].pc = "done" /\ req'[r].res.status = 200
                 THEN /\ req[r].pc = "us_commit"
                      /\ inventoryLogs' = Append(inventoryLogs, RequestedEntry(r))
                 ELSE inventoryLogs' = inventoryLogs]_vars

\* C14's case: one call succeeded, another failed, and the log holds exactly
\* one entry of a movement: the one the successful call asked for.
C14_Witness ==
    \E r1 \in Reqs, r2 \in Reqs :
        /\ Succeeded(r1)
        /\ req[r2].pc = "done"
        /\ req[r2].op = "updateStock"
        /\ req[r2].res.status # 200
        /\ req[r2].id = req[r1].id
        /\ Len(inventoryLogs) = 1
        /\ inventoryLogs[1].productId = req[r1].id
        /\ inventoryLogs[1].type = req[r1].type
        /\ inventoryLogs[1].quantity = req[r1].quantity
        /\ inventoryLogs[1].reason = req[r1].reason

\* ---- C15 -----------------------------------------------------------------
\* C15: initial stock entry. create stores the product with the quantity n it
\* was given; with n = 0 it answers 201 there and writes no log entry; with
\* n > 0 it answers 201 only by appending exactly one entry for the product,
\* of type PURCHASE, quantity n and reason 'Initial stock'.
C15_InitialStockEntry ==
    [][\A r \in Reqs :
          (req[r].pc \in {"cr_create", "cr_log"} /\ Stepped(r)
              /\ req'[r].res.error # "StorageError") =>
              IF req[r].pc = "cr_create"
              THEN /\ nextId \notin DOMAIN product
                   /\ nextId \in DOMAIN product'
                   /\ product'[nextId].quantity = req[r].quantity
                   /\ inventoryLogs' = inventoryLogs
                   /\ IF req[r].quantity = 0
                      THEN req'[r].pc = "done" /\ req'[r].res.status = 201
                      ELSE req'[r].pc = "cr_log"
              ELSE /\ req[r].pc = "cr_log"
                   /\ req[r].quantity > 0
                   /\ product' = product
                   /\ IF req'[r].res.status = 201
                      THEN inventoryLogs' = Append(inventoryLogs,
                               [id |-> nextLogId, productId |-> req[r].id,
                                type |-> "PURCHASE", quantity |-> req[r].quantity,
                                reason |-> "Initial stock"])
                      ELSE inventoryLogs' = inventoryLogs]_vars

\* C15's case: a create with n > 0 has answered 201; the product holds n and
\* its only log entry is the PURCHASE of n with reason 'Initial stock'.
C15_Witness ==
    \E r \in Reqs :
        /\ req[r].pc = "done"
        /\ req[r].op = "create"
        /\ req[r].res.status = 201
        /\ req[r].quantity > 0
        /\ req[r].id \in DOMAIN product
        /\ product[req[r].id].quantity = req[r].quantity
        /\ Cardinality(LogsOf(req[r].id)) = 1
        /\ \A l \in LogsOf(req[r].id) :
              /\ l.type = "PURCHASE"
              /\ l.quantity = req[r].quantity
              /\ l.reason = "Initial stock"

\* ---- C16 -----------------------------------------------------------------
\* Positions of a delete request.
DelPcs == {"del_find", "del_logs", "del_product", "del_commit"}

\* The log without the entries of product p.
LogsWithout(p) ==
    LET Keep(l) == l.productId # p
    IN SelectSeq(inventoryLogs, Keep)

C17_DeleteAbsent ==
    [][\A r \in Reqs :
          /\ (/\ req[r].pc \in DelPcs
              /\ req'[r].pc = "done"
              /\ req'[r].res.error # "StorageError"
              /\ req[r].id \notin DOMAIN product) =>
                 /\ IF req[r].pc = "del_find"
                    THEN req'[r].res = [status |-> 404, error |-> "NotFoundError"]
                    ELSE req'[r].res.status = 404
                 /\ product' = product
                 /\ inventoryLogs' = inventoryLogs
          /\ (/\ req[r].pc \in DelPcs
              /\ req'[r].pc = "done"
              /\ req'[r].res.status = 204) =>
                 /\ req[r].id \in DOMAIN product
                 /\ req[r].id \notin DOMAIN product'
          /\ (/\ req[r].pc \in {"del_product", "del_commit"}
              /\ Stepped(r)
              /\ req'[r].res.error # "StorageError"
              /\ req[r].id \in DOMAIN product
              /\ \A l \in LogsOf(req[r].id) : l.id \in req[r].deleted) =>
                 \/ req'[r].pc = "del_commit"
                 \/ req'[r].pc = "done" /\ req'[r].res.status = 204]_vars

\* C17's case: two deletes of the same product ran concurrently (the loser
\* had read the row before it went away); one answered 204, the other 404.
C17_Witness ==
    \E r1 \in Reqs, r2 \in Reqs :
        /\ r1 # r2
        /\ req[r1].pc = "done" /\ req[r1].op = "delete"
        /\ req[r2].pc = "done" /\ req[r2].op = "delete"
        /\ req[r1].id = req[r2].id
        /\ req[r1].res.status = 204
        /\ req[r2].res = [status |-> 404, error |-> "P2025"]
        /\ req[r1].id \notin DOMAIN product

\* ---- C18 -----------------------------------------------------------------
\* A delete commits in this step.
DeleteCommits(r) ==
    /\ req[r].pc = "del_commit"
    /\ req'[r].pc = "done"
    /\ req'[r].res.status = 204

\* C18: the audit log is append-only. A step that is not the commit of a
\* delete keeps every existing entry as it is, in place (it can only append);
\* the commit of a delete keeps, unchanged and in order, every entry of the
\* other products and adds none.
C18_AppendOnly ==
    [][IF \E r \in Reqs : DeleteCommits(r)
       THEN \E r \in Reqs :
               /\ DeleteCommits(r)
               /\ inventoryLogs' = LogsWithout(req[r].id)
       ELSE /\ Len(inventoryLogs') >= Len(inventoryLogs)
            /\ \A i \in DOMAIN inventoryLogs : inventoryLogs'[i] = inventoryLogs[i]]_vars

\* C18's case: the log holds the initial entry and a later movement's entry,
\* and a generic update of the product has been applied as well.
C18_Witness ==
    \E r1 \in Reqs, r2 \in Reqs :
        /\ Succeeded(r1)
        /\ req[r2].pc = "done"
        /\ req[r2].op = "update"
        /\ req[r2].res.status = 200
        /\ Len(inventoryLogs) = 2
        /\ inventoryLogs[1].reason = "Initial stock"
        /\ inventoryLogs[2].type = req[r1].type
        /\ inventoryLogs[2].quantity = req[r1].quantity

\* ---- C19 -----------------------------------------------------------------
\* C19: referential integrity of the ledger. In every reachable state, under
\* any interleaving of create, updateStock and delete, every stored log entry
\* references a product that exists.
C19_LogsReferenceProducts ==
    \A i \in DOMAIN inventoryLogs : inventoryLogs[i].productId \in DOMAIN product

\* C19's case: an updateStock committed its entry while a delete of the same
\* product was between its deleteMany and its product delete; the foreign key
\* refused the delete, and the product and the entry are both there.
C19_Witness ==
    \E r1 \in Reqs, r2 \in Reqs :
        /\ Succeeded(r1)
        /\ req[r2].pc = "done"
        /\ req[r2].op = "delete"
        /\ req[r2].res.error = "P2003"
        /\ req[r2].id = req[r1].id
        /\ req[r1].id \in DOMAIN product
        /\ LogsOf(req[r1].id) # {}

\* ---- C20 -----------------------------------------------------------------
\* C20 (as claimed): the stored quantity and status of an existing product
\* change only in the commit of a successful updateStock. The code refutes
\* it: productUpdateSchema is productCreateSchema.partial(), so the generic
\* update writes a quantity or a status it is given, with no log entry.
C20_StockOnlyThroughUpdateStock ==
    [][\A p \in DOMAIN product \cap DOMAIN product' :
          (\/ product'[p].quantity # product[p].quantity
           \/ product'[p].status # product[p].status) =>
              \E r \in Reqs : Commits(r) /\ req[r].id = p]_vars

\* ---- C21 -----------------------------------------------------------------
\* C21 (as claimed): an updateStock call whose transaction, having passed the
\* stock guard, cannot commit answers 409 (ConflictError) and persists neither
\* the quantity nor the log entry. The code refutes the 409: no path of
\* updateStock raises ConflictError; a product deleted under the transaction
\* gives P2025 (404) and every other transaction failure gives 500.
C21_ConflictSurfaced ==
    [][\A r \in Reqs :
          (/\ req[r].pc \in {"us_update", "us_log", "us_commit"}
           /\ req'[r].pc = "done"
           /\ req'[r].res.status # 200) =>
              /\ req'[r].res.status = 409
              /\ product' = product
              /\ inventoryLogs' = inventoryLogs]_vars

\* ---- C22 -----------------------------------------------------------------
\* No two rows of table c share a sku or a barcode that is not null.
UniqueIn(c) ==
    \A p \in DOMAIN c, q \in DOMAIN c :
        p # q =>
            /\ c[p].sku # c[q].sku
            /\ c[p].barcode # NoBarcode => c[p].barcode # c[q].barcode

\* C22: sku and barcode uniqueness. After every step of create and update
\* calls, in any interleaving, no two stored products share a sku or a
\* non-null barcode; a create step that meets a product holding its sku or
\* barcode ends the call with 409 and writes neither a product nor a log entry.
C22_SkuBarcodeUnique ==
    [][/\ UniqueIn(catalog')
       /\ \A r \in Reqs :
            (/\ req[r].pc \in {"cc_find", "cc_create"}
             /\ Stepped(r)
             /\ req'[r].res.error # "StorageError"
             /\ UniqueViolation(req[r].sku, req[r].barcode, 0)) =>
                /\ req'[r].pc = "done"
                /\ req'[r].res.status = 409
                /\ catalog' = catalog
                /\ inventoryLogs' = inventoryLogs]_vars

\* C22's case: two creates with the same sku ran concurrently, both passed
\* the findFirst check; one answered 201, the unique index refused the other
\* (409), and one product is stored.
C22_Witness ==
    \E r1 \in Reqs, r2 \in Reqs :
        /\ req[r1].pc = "done" /\ req[r1].op = "create"
        /\ req[r2].pc = "done" /\ req[r2].op = "create"
        /\ req[r1].sku = req[r2].sku
        /\ req[r1].res.status = 201
        /\ req[r2].res = [status |-> 409, error |-> "P2002"]
        /\ Cardinality(DOMAIN catalog) = 1

\* ---- C30 -----------------------------------------------------------------
\* Every product of table c refers to a category in cs and a supplier in ss.
ReferencesIn(c, cs, ss) ==
    \A p \in DOMAIN c : c[p].categoryId \in cs /\ c[p].supplierId \in ss

\* C30: categories and suppliers in use cannot be deleted. After every step,
\* every stored product's categoryId and supplierId refer to a stored category
\* and supplier; a step that ends a delete of a category or supplier that has
\* a product does not answer 204 and leaves it stored.
C30_InUseNotDeleted ==
    [][/\ ReferencesIn(catalog', category', supplier')
       /\ \A r \in Reqs :
            /\ (/\ req[r].pc \in {"cd_find", "cd_delete"}
                /\ req'[r].pc = "done"
                /\ CategoryProducts(req[r].categoryId) > 0) =>
                   /\ req'[r].res.status # 204
                   /\ category' = category
            /\ (/\ req[r].pc \in {"sd_find", "sd_delete"}
                /\ req'[r].pc = "done"
                /\ SupplierProducts(req[r].supplierId) > 0) =>
                   /\ req'[r].res.status # 204
                   /\ supplier' = supplier]_vars

\* C30's case: a create referencing a category committed between the category
\* delete's count and its delete statement; the foreign key refused the
\* delete, and the category and the product are both stored.
C30_Witness ==
    \E r1 \in Reqs, r2 \in Reqs :
        /\ req[r1].pc = "done" /\ req[r1].op = "create" /\ req[r1].res.status = 201
        /\ req[r2].pc = "done" /\ req[r2].op = "categoryDelete"
        /\ req[r2].res.error = "P2003"
        /\ req[r2].categoryId = req[r1].categoryId
        /\ req[r1].categoryId \in category
        /\ req[r1].id \in DOMAIN catalog

\* ---- C25 -----------------------------------------------------------------
\* C25 (as claimed): a GET on /products/low-stock that has passed apiKeyAuth
\* is handled by getLowStock, a GET on /products/expiring by getExpiring. The
\* code refutes it: '/:id' is registered before both and matches them, so the
\* request goes to validate(getOne) and getOne, which answer 400.
C25_ListRoutesDispatched ==
    \A r \in Reqs :
        (/\ req[r].op = "request"
         /\ req[r].pc \in {"handler", "done"}
         /\ req[r].method = "GET"
         /\ req[r].apiKey) =>
            /\ req[r].path = <<"low-stock">> => req[r].handler = "getLowStock"
            /\ req[r].path = <<"expiring">> => req[r].handler = "getExpiring"

\* ---- C29 -----------------------------------------------------------------
\* The bearer token authenticates a stored user that is not blocked.
Authenticated(bearer) ==
    /\ bearer.present
    /\ bearer.valid
    /\ bearer.id \in DOMAIN user
    /\ ~user[bearer.id].isBlocked

\* The roles allowed to reach a handler that writes products.
Gate(handler) ==
    IF handler = "delete" THEN {"ADMIN", "MANAGER"}
    ELSE {"ADMIN", "MANAGER", "PHARMACIST"}

\* C29: role gate on stock mutation. A request is handed to create, update or
\* updateStock only with the valid API key and a token of a stored,
\* non-blocked user whose role is ADMIN, MANAGER or PHARMACIST, and to delete
\* only with role ADMIN or MANAGER; on those routes a request that is not
\* authenticated is answered 401 and an authenticated one whose role is not
\* allowed 403; and no step of the middleware changes a table.
C29_RoleGate ==
    [][/\ tables' = tables
       /\ \A r \in Reqs :
            LET q == req'[r]
                route == Dispatch(q.method, q.path)
            IN /\ q.handler \in {"create", "update", "updateStock", "delete"} =>
                     /\ q.apiKey
                     /\ Authenticated(q.bearer)
                     /\ user[q.bearer.id].role \in Gate(q.handler)
               /\ (/\ q.pc = "done"
                   /\ q.apiKey
                   /\ route # 0
                   /\ q.res.error # "StorageError") =>
                      (Routes[IF route = 0 THEN 1 ELSE route].handler
                           \in {"create", "update", "updateStock", "delete"} =>
                         /\ ~Authenticated(q.bearer) => q.res.status = 401
                         /\ (/\ Authenticated(q.bearer)
                             /\ user[q.bearer.id].role
                                    \notin Gate(Routes[IF route = 0 THEN 1 ELSE route].handler))
                               => q.res.status = 403)]_vars

\* C29's case: a PHARMACIST with the valid API key and a good token asked for
\* a delete and was refused with 403.
C29_Witness ==
    \E r \in Reqs :
        /\ req[r].apiKey
        /\ Authenticated(req[r].bearer)
        /\ user[req[r].bearer.id].role = "PHARMACIST"
        /\ req[r].method = "DELETE"
        /\ req[r].pc = "done"
        /\ req[r].res = [status |-> 403, error |-> "Forbidden"]

\* ---- C24 -----------------------------------------------------------------
\* getOne on an existing product answers with the product as stored and with
\* its min(k, 10) newest log entries, newest first, k being the number of
\* entries stored for it; getOne on an absent id answers 404, NotFoundError.
\* (A failed read answers 500.)
C24_SingleRecordFetch ==
    [][\A r \in Reqs :
          (/\ req[r].pc = "go_find"
           /\ req'[r].pc = "done"
           /\ req'[r].res.error # "StorageError") =>
              LET id == req[r].id
                  all == SelectSeq2(inventoryLogs, {e.id : e \in LogsOf(id)})
                  k == Len(all)
                  m == IF k <= 10 THEN k ELSE 10
              IN IF id \in DOMAIN product
                 THEN /\ req'[r].res = [status |-> 200, error |-> "none"]
                      /\ req'[r].currentProduct = product[id]
                      /\ req'[r].logs = [i \in 1..m |-> all[k + 1 - i]]
                 ELSE req'[r].res = [status |-> 404, error |-> "NotFoundError"]]_vars

\* A fetch answered with ten entries while more than ten are stored, the newest
\* of them written by an updateStock accepted in this run.
C24_Witness ==
    \E r \in Reqs :
        /\ req[r].op = "getOne"
        /\ req[r].pc = "done"
        /\ req[r].res.status = 200
        /\ Len(req[r].logs) = 10
        /\ Len(inventoryLogs) > MaxStored
        /\ req[r].logs[1].id = Len(inventoryLogs)

\* ---- C23 -----------------------------------------------------------------
\* getLowStock answers 200 with exactly the committed products that have
\* quantity <= reorderPoint and status ACTIVE, each as stored; a product that
\* an updateStock has driven to 0 (it is then OUT_OF_STOCK) is not among them;
\* no step of the call changes a table. (A failed read answers 500.)
C23_LowStockView ==
    [][\A r \in Reqs :
          req[r].pc = "gls_find" /\ req'[r].pc = "done" =>
              /\ tables' = tables
              /\ req'[r].res.error # "StorageError" =>
                    LET rows == req'[r].products
                        ids == {rows[i].id : i \in DOMAIN rows}
                    IN /\ req'[r].res = [status |-> 200, error |-> "none"]
                       /\ ids = {id \in DOMAIN product :
                                    /\ product[id].quantity <= catalog[id].reorderPoint
                                    /\ product[id].status = "ACTIVE"}
                       /\ Len(rows) = Cardinality(ids)
                       /\ \A i \in DOMAIN rows :
                             /\ rows[i].quantity = product[rows[i].id].quantity
                             /\ rows[i].status = product[rows[i].id].status
                       /\ \A id \in DOMAIN product :
                             product[id].quantity = 0 /\ product[id].status = "OUT_OF_STOCK"
                                 => id \notin ids]_vars

\* A recorded sale has driven product 1 to 0 (OUT_OF_STOCK), and a getLowStock
\* of this run has answered with the other product, low and ACTIVE, alone.
C23_Witness ==
    \E r \in Reqs :
        /\ req[r].op = "getLowStock"
        /\ req[r].pc = "done"
        /\ req[r].res.status = 200
        /\ Len(inventoryLogs) = 1
        /\ inventoryLogs[1].type = "SALE"
        /\ product[1].quantity = 0
        /\ product[1].status = "OUT_OF_STOCK"
        /\ Len(req[r].products) = 1
        /\ req[r].products[1].id # 1

\* ---- C26 -----------------------------------------------------------------
\* For every request a controller handler calls the response's send at most
\* once, and once a response has been sent for a request nothing more is done
\* for it: the request is finished and no other sender was called.
C26_OneResponse ==
    \A r \in Reqs :
        req[r].op \in {"getAll", "register", "refreshToken"} =>
            /\ Len(req[r].sends) <= 1
            /\ req[r].sends # <<>> => req[r].pc = "done"

\* ---- C27 -----------------------------------------------------------------
\* No login request is ever left with nothing more to run and no response
\* sent: whatever the credentials and whatever fails, its error reaches the
\* error handler. (Were this so, every login would be answered in the end.)
C27_LoginAnswered ==
    \A r \in Reqs : req[r].op = "login" => req[r].pc # "lost"

\* ---- C28 -----------------------------------------------------------------
\* A refresh token is redeemed at most once: a refresh that answers 200 for
\* token T finds T stored for its user at that moment, and leaves a different
\* token stored, so that T is not accepted again.
C28_SingleUse ==
    [][\A r \in Reqs :
          (/\ req[r].pc = "rt_tokens"
           /\ req'[r].pc = "done"
           /\ req'[r].res.status = 200) =>
              /\ user[req[r].id].refreshToken = req[r].token
              /\ user'[req[r].id].refreshToken # req[r].token]_vars

====
